---- MODULE Spec2Model ----
(***************************************************************************)
(* A model of the markitup converters: the heading classifier and the      *)
(* paragraph renderer of generator/docx2md.rs, the table synthesizer of    *)
(* generator/pptx2md.rs, the image resolver of generator/image2md.rs and   *)
(* the format dispatcher of lib.rs.                                        *)
(*                                                                         *)
(* Text is a sequence of one-character strings, so that trimming, prefix   *)
(* tests, replacement and formatting are computed and not assumed.         *)
(***************************************************************************)
EXTENDS Integers, Sequences, FiniteSets, TLC

VARIABLES pc, inp, out, SETTINGS, fs, now

vars == <<pc, inp, out, SETTINGS, fs, now>>

(***************************************************************************)
(* Option values                                                           *)
(***************************************************************************)
None == [tag |-> "None"]

Some(x) == [tag |-> "Some", val |-> x]

IsSome(o) == o.tag = "Some"

\* F applied to the value of v, which is computed once
Bind(v, F(_)) == CHOOSE r \in {F(x) : x \in {v}} : TRUE

(***************************************************************************)
(* Text primitives (Rust str methods used by the converters)               *)
(***************************************************************************)
Upper == <<"A","B","C","D","E","F","G","H","I","J","K","L","M",
           "N","O","P","Q","R","S","T","U","V","W","X","Y","Z">>

Lower == <<"a","b","c","d","e","f","g","h","i","j","k","l","m",
           "n","o","p","q","r","s","t","u","v","w","x","y","z">>

Digits == <<"0","1","2","3","4","5","6","7","8","9">>

Range(s) == {s[i] : i \in 1..Len(s)}

Rep(c, n) == [i \in 1..n |-> c]

Min(a, b) == IF a < b THEN a ELSE b

\* char::to_lowercase on the ASCII letters
ToLowerChar(c) ==
    IF \E i \in 1..Len(Upper) : Upper[i] = c
    THEN Lower[CHOOSE i \in 1..Len(Upper) : Upper[i] = c]
    ELSE c

\* str::to_lowercase
ToLowercase(s) == [i \in 1..Len(s) |-> ToLowerChar(s[i])]

\* char::is_ascii_digit
IsAsciiDigit(c) == c \in Range(Digits)

\* a letter outside ASCII: "~" stands for a CJK ideograph, a character that
\* is alphabetic, has no other letter case and takes three bytes in UTF-8
Han == "~"

\* char::len_utf8
LenUtf8(c) == IF c = Han THEN 3 ELSE 1

\* str::len, the length of the text in bytes
StrLen(s) ==
    Cardinality({i \in 1..Len(s) : LenUtf8(s[i]) = 1})
    + 3 * Cardinality({i \in 1..Len(s) : LenUtf8(s[i]) = 3})

\* char::is_alphabetic
IsAlphabetic(c) == c \in Range(Upper) \cup Range(Lower) \cup {Han}

\* char::is_whitespace
IsWhitespace(c) == c \in {" ", "\n", "\t"}

DigitValue(c) == (CHOOSE i \in 1..Len(Digits) : Digits[i] = c) - 1

\* str::starts_with
StartsWith(s, p) == Len(p) <= Len(s) /\ SubSeq(s, 1, Len(p)) = p

\* str::ends_with
EndsWith(s, p) == Len(p) <= Len(s) /\ SubSeq(s, Len(s) - Len(p) + 1, Len(s)) = p

\* str::contains
Contains(s, p) ==
    \E i \in 1..(Len(s) - Len(p) + 1) : SubSeq(s, i, i + Len(p) - 1) = p

\* str::trim
Trim(s) ==
    LET keep == {i \in 1..Len(s) : ~IsWhitespace(s[i])}
    IN  IF keep = {} THEN <<>>
        ELSE LET lo == CHOOSE i \in keep : \A j \in keep : i <= j
                 hi == CHOOSE i \in keep : \A j \in keep : j <= i
             IN  SubSeq(s, lo, hi)

\* str::replace: every non-overlapping match of pat, left to right
RECURSIVE Replace(_, _, _)
Replace(s, pat, rep) ==
    LET hits == {i \in 1..(Len(s) - Len(pat) + 1) : SubSeq(s, i, i + Len(pat) - 1) = pat}
    IN  IF pat = <<>> \/ hits = {} THEN s
        ELSE LET i == CHOOSE h \in hits : \A j \in hits : h <= j
             IN  SubSeq(s, 1, i - 1) \o rep
                 \o Replace(SubSeq(s, i + Len(pat), Len(s)), pat, rep)

\* the digits of s, in order: chars().filter(is_ascii_digit).collect::<String>()
RECURSIVE FilterDigits(_)
FilterDigits(s) ==
    IF s = <<>> THEN <<>>
    ELSE IF IsAsciiDigit(s[1]) THEN <<s[1]>> \o FilterDigits(Tail(s))
         ELSE FilterDigits(Tail(s))

RECURSIVE DecimalValue(_)
DecimalValue(d) ==
    IF d = <<>> THEN 0
    ELSE 10 * DecimalValue(SubSeq(d, 1, Len(d) - 1)) + DigitValue(d[Len(d)])

\* str::parse::<usize>() of a digit string: Err on the empty string
ParseUsize(d) == IF d = <<>> THEN None ELSE Some(DecimalValue(d))

UnwrapOr(o, dflt) == IF IsSome(o) THEN o.val ELSE dflt

RECURSIVE Concat(_)
Concat(ss) == IF ss = <<>> THEN <<>> ELSE Head(ss) \o Concat(Tail(ss))

(***************************************************************************)
(* Heading classifier: generator/docx2md.rs                                *)
(***************************************************************************)
sHeading == <<"h","e","a","d","i","n","g">>

sTitle == <<"t","i","t","l","e">>

sSubtitle == <<"s","u","b","t","i","t","l","e">>

sHeader == <<"h","e","a","d","e","r">>

\* check_style_for_heading: None, or Some(<<is_heading, level>>)
check_style_for_heading(style_name) ==
    LET style_lower == ToLowercase(style_name)
        parsed == ParseUsize(FilterDigits(style_name))
    IN  IF StartsWith(style_lower, sHeading) \/ StartsWith(style_lower, sTitle)
        THEN Some(<<TRUE, UnwrapOr(parsed, 1)>>)
        ELSE IF style_lower = sTitle THEN Some(<<TRUE, 1>>)
        ELSE IF Contains(style_lower, sSubtitle) THEN Some(<<TRUE, 2>>)
        ELSE IF Contains(style_lower, sHeader)
        THEN Some(<<TRUE, UnwrapOr(parsed, 3)>>)
        ELSE None

\* the match on `size as u32` (size = half-points / 2.0, truncated): 0 = no level
SizeLevel(hp) ==
    LET s == hp \div 2
    IN  IF s >= 18 THEN 1
        ELSE IF s >= 16 THEN 2
        ELSE IF s >= 14 THEN 3
        ELSE IF s >= 13 THEN 4
        ELSE IF s >= 12 THEN 5
        ELSE 0

\* the bold heuristic of determine_heading_status (its last block)
BoldHeuristic(has_bold, content) ==
    LET trimmed == Trim(content)
    IN  IF /\ has_bold
           /\ StrLen(trimmed) > 0
           /\ StrLen(trimmed) < 80
           /\ ~EndsWith(trimmed, <<".">>)
           /\ ~EndsWith(trimmed, <<"!">>)
           /\ ~EndsWith(trimmed, <<"?">>)
           /\ ~Contains(trimmed, <<"\n">>)
           /\ \E i \in 1..Len(trimmed) : IsAlphabetic(trimmed[i])
        THEN IF StrLen(trimmed) < 30 THEN <<TRUE, 2>>
             ELSE IF StrLen(trimmed) < 50 THEN <<TRUE, 3>>
             ELSE <<TRUE, 4>>
        ELSE <<FALSE, 1>>

\* a wrong order of the signals: the bold heuristic before the font size
determine_heading_status_BoldFirst(style_is_heading, style_level, has_bold, font_size, content) ==
    IF BoldHeuristic(has_bold, content)[1] THEN BoldHeuristic(has_bold, content)
    ELSE IF style_is_heading THEN <<TRUE, style_level>>
    ELSE IF IsSome(font_size) /\ SizeLevel(font_size.val) # 0
            /\ StrLen(Trim(content)) < 100 /\ ~EndsWith(Trim(content), <<".">>)
         THEN <<TRUE, SizeLevel(font_size.val)>>
         ELSE <<FALSE, 1>>

\* a classifier that lets the bold heuristic decide below 12pt
determine_heading_status_BoldBelow(style_is_heading, style_level, has_bold, font_size, content) ==
    IF style_is_heading THEN <<TRUE, style_level>>
    ELSE IF IsSome(font_size) /\ SizeLevel(font_size.val) # 0
            /\ StrLen(Trim(content)) < 100 /\ ~EndsWith(Trim(content), <<".">>)
         THEN <<TRUE, SizeLevel(font_size.val)>>
         ELSE BoldHeuristic(has_bold, content)

\* determine_heading_status; font_size is the optional size in half-points
determine_heading_status(style_is_heading, style_level, has_bold, font_size, content) ==
    IF style_is_heading THEN <<TRUE, style_level>>
    ELSE IF IsSome(font_size) /\ SizeLevel(font_size.val) = 0 THEN <<FALSE, 1>>
    ELSE IF IsSome(font_size)
            /\ StrLen(Trim(content)) < 100 /\ ~EndsWith(Trim(content), <<".">>)
         THEN <<TRUE, SizeLevel(font_size.val)>>
         ELSE BoldHeuristic(has_bold, content)

(***************************************************************************)
(* Paths (std::path::Path on a '/'-separated platform); a path is text     *)
(***************************************************************************)
RECURSIVE SplitSlash(_, _)
SplitSlash(s, cur) ==
    IF s = <<>> THEN <<cur>>
    ELSE IF s[1] = "/" THEN <<cur>> \o SplitSlash(Tail(s), <<>>)
         ELSE SplitSlash(Tail(s), Append(cur, s[1]))

RECURSIVE DropEmpty(_)
DropEmpty(cs) ==
    IF cs = <<>> THEN <<>>
    ELSE IF Head(cs) = <<>> THEN DropEmpty(Tail(cs))
         ELSE <<Head(cs)>> \o DropEmpty(Tail(cs))

\* Path::components: a leading '/' is the root component, written <<"/">>
Components(p) ==
    IF p = <<>> THEN <<>>
    ELSE (IF p[1] = "/" THEN << <<"/">> >> ELSE <<>>) \o DropEmpty(SplitSlash(p, <<>>))

RECURSIVE JoinComponents(_)
JoinComponents(cs) ==
    IF cs = <<>> THEN <<>>
    ELSE IF Len(cs) = 1 THEN cs[1]
    ELSE IF cs[1] = <<"/">> THEN <<"/">> \o JoinComponents(Tail(cs))
    ELSE cs[1] \o <<"/">> \o JoinComponents(Tail(cs))

\* Path::parent: None for the empty path and for the root
PathParent(p) ==
    LET cs == Components(p)
    IN  IF cs = <<>> \/ cs = << <<"/">> >> THEN None
        ELSE Some(JoinComponents(SubSeq(cs, 1, Len(cs) - 1)))

\* Path::strip_prefix: Ok(rest) when base's components are a prefix of p's
StripPrefix(p, base) ==
    LET cs == Components(p)
        bs == Components(base)
    IN  IF Len(bs) <= Len(cs) /\ SubSeq(cs, 1, Len(bs)) = bs
        THEN Some(JoinComponents(SubSeq(cs, Len(bs) + 1, Len(cs))))
        ELSE None

\* Path::join with a relative, single-component file name
PathJoin(dir, name) ==
    IF dir = <<>> THEN name
    ELSE IF dir[Len(dir)] = "/" THEN dir \o name
    ELSE dir \o <<"/">> \o name

\* Path::file_name: the last component, unless it is the root or ".."
FileName(p) ==
    LET cs == Components(p)
    IN  IF cs = <<>> \/ cs[Len(cs)] = <<"/">> \/ cs[Len(cs)] = <<".", ".">> THEN None
        ELSE Some(cs[Len(cs)])

\* Path::extension: the part of the file name after its last '.', None when
\* the file name has no '.' or only a leading one
PathExtension(p) ==
    LET fin == FileName(p)
    IN  IF ~IsSome(fin) THEN None
        ELSE LET f == fin.val
                 dots == {i \in 1..Len(f) : f[i] = "."}
             IN  IF dots = {} THEN None
                 ELSE LET d == CHOOSE i \in dots : \A j \in dots : j <= i
                      IN  IF d = 1 THEN None
                          ELSE Some(SubSeq(f, d + 1, Len(f)))

(***************************************************************************)
(* Content sniffing: infer::get on the leading magic bytes                 *)
(***************************************************************************)
MagicPng == <<137, 80, 78, 71>>

MagicJpeg == <<255, 216, 255>>

MagicGif == <<71, 73, 70>>

MagicZip == <<80, 75, 3, 4>>

MagicWav == <<82, 73, 70, 70, 0, 0, 0, 0, 87, 65, 86, 69>>

mImagePng == <<"i","m","a","g","e","/","p","n","g">>

mImageJpeg == <<"i","m","a","g","e","/","j","p","e","g">>

mImageGif == <<"i","m","a","g","e","/","g","i","f">>

mImageWebp == <<"i","m","a","g","e","/","w","e","b","p">>

mZip == <<"a","p","p","l","i","c","a","t","i","o","n","/","z","i","p">>

mTextPlain == <<"t","e","x","t","/","p","l","a","i","n">>

mWavX == <<"a","u","d","i","o","/","x","-","w","a","v">>

mWav == <<"a","u","d","i","o","/","w","a","v">>

mWave == <<"a","u","d","i","o","/","w","a","v","e">>

mDocx == <<"a","p","p","l","i","c","a","t","i","o","n","/","v","n","d",".","o","p","e","n","x","m","l","f","o","r","m","a","t","s","-","o","f","f","i","c","e","d","o","c","u","m","e","n","t",".","w","o","r","d","p","r","o","c","e","s","s","i","n","g","m","l",".","d","o","c","u","m","e","n","t">>

mXlsx == <<"a","p","p","l","i","c","a","t","i","o","n","/","v","n","d",".","o","p","e","n","x","m","l","f","o","r","m","a","t","s","-","o","f","f","i","c","e","d","o","c","u","m","e","n","t",".","s","p","r","e","a","d","s","h","e","e","t","m","l",".","s","h","e","e","t">>

mPptx == <<"a","p","p","l","i","c","a","t","i","o","n","/","v","n","d",".","o","p","e","n","x","m","l","f","o","r","m","a","t","s","-","o","f","f","i","c","e","d","o","c","u","m","e","n","t",".","p","r","e","s","e","n","t","a","t","i","o","n","m","l",".","p","r","e","s","e","n","t","a","t","i","o","n">>

mCsv == <<"t","e","x","t","/","c","s","v">>

mAppCsv == <<"a","p","p","l","i","c","a","t","i","o","n","/","c","s","v">>

mHtml == <<"t","e","x","t","/","h","t","m","l">>

\* infer::get: the MIME type of the first matcher whose magic bytes lead the
\* buffer; None when no matcher applies (plain text has no matcher)
InferGet(bytes) ==
    IF StartsWith(bytes, MagicPng) THEN Some(mImagePng)
    ELSE IF StartsWith(bytes, MagicJpeg) THEN Some(mImageJpeg)
    ELSE IF StartsWith(bytes, MagicGif) THEN Some(mImageGif)
    ELSE IF StartsWith(bytes, MagicZip) THEN Some(mZip)
    ELSE IF StartsWith(bytes, MagicWav) THEN Some(mWavX)
    ELSE None

(***************************************************************************)
(* Base64 (base64::engine::general_purpose::STANDARD)                      *)
(***************************************************************************)
B64Alphabet == Upper \o Lower \o Digits \o <<"+", "/">>

B64Char(n) == B64Alphabet[n + 1]

\* STANDARD.encode: three bytes to four characters, '=' padding at the end
RECURSIVE Base64Encode(_)
Base64Encode(b) ==
    IF b = <<>> THEN <<>>
    ELSE IF Len(b) = 1
    THEN <<B64Char(b[1] \div 4), B64Char((b[1] % 4) * 16), "=", "=">>
    ELSE IF Len(b) = 2
    THEN <<B64Char(b[1] \div 4), B64Char((b[1] % 4) * 16 + b[2] \div 16),
           B64Char((b[2] % 16) * 4), "=">>
    ELSE <<B64Char(b[1] \div 4), B64Char((b[1] % 4) * 16 + b[2] \div 16),
           B64Char((b[2] % 16) * 4 + b[3] \div 64), B64Char(b[3] % 64)>>
         \o Base64Encode(SubSeq(b, 4, Len(b)))

(***************************************************************************)
(* Image resolver: generator/image2md.rs                                   *)
(***************************************************************************)
Ok(v) == [tag |-> "Ok", val |-> v]

Err(e) == [tag |-> "Err", err |-> e]

IsOk(r) == r.tag = "Ok"

sPic == <<"p","i","c","-">>

sGeneratedImage == <<"g","e","n","e","r","a","t","e","d","-","i","m","a","g","e">>

sJpg == <<"j","p","g">>

sPng == <<"p","n","g">>

sGif == <<"g","i","f">>

sWebp == <<"w","e","b","p">>

\* the decimal text of a natural number (format!("{}", n))
RECURSIVE ToDecimal(_)
ToDecimal(n) ==
    IF n < 10 THEN <<Digits[n + 1]>>
    ELSE ToDecimal(n \div 10) \o <<Digits[(n % 10) + 1]>>

\* format!("pic-{}", chrono::Utc::now().timestamp())
TimestampName(t) == sPic \o ToDecimal(t)

\* the characters call_doubao_api replaces by '-'
Unsafe == {" ", "/", "\\", ":", "*", "?", "\"", "<", ">", "|"}

\* call_doubao_api: api is the outcome of the request, Err or Ok(content),
\* content the optional choices[0].message.content of the response
call_doubao_api(api, api_key) ==
    IF ~IsSome(api_key) THEN Err("Doubao API key not configured")
    ELSE IF ~IsOk(api) THEN api
    ELSE LET raw == Trim(UnwrapOr(api.val, sGeneratedImage))
         IN  Ok([i \in 1..Len(raw) |-> IF raw[i] \in Unsafe THEN "-" ELSE raw[i]])

\* ai_generate_name: the timestamp name when the call fails
ai_generate_name(api, api_key, t) ==
    LET r == call_doubao_api(api, api_key)
    IN  IF IsOk(r) THEN r.val ELSE TimestampName(t)

\* the extension run_with_mode derives from the sniffed type
ExtensionOf(kind) ==
    IF ~IsSome(kind) THEN sJpg
    ELSE IF kind.val = mImageJpeg THEN sJpg
    ELSE IF kind.val = mImagePng THEN sPng
    ELSE IF kind.val = mImageGif THEN sGif
    ELSE IF kind.val = mImageWebp THEN sWebp
    ELSE sJpg

MimeOf(kind) == IF IsSome(kind) THEN kind.val ELSE mImageJpeg

ImageName(cfg, env) ==
    IF cfg.is_ai_enpower THEN ai_generate_name(env.api, cfg.doubao_api_key, env.t)
    ELSE TimestampName(env.t)

\* a resolver that encodes only the first three bytes of the image
run_with_mode_Truncating(file_stream, mode, cfg, fsys, env) ==
    IF file_stream = <<>> THEN [res |-> Err("Input stream is empty"), fs |-> fsys]
    ELSE LET name == ImageName(cfg, env)
             kind == InferGet(file_stream)
             filename == name \o <<".">> \o ExtensionOf(kind)
             cut == SubSeq(file_stream, 1, Min(3, Len(file_stream)))
         IN  IF mode = "Base64"
             THEN [res |-> Ok(<<"!","[">> \o name \o <<"]","(","d","a","t","a",":">> \o MimeOf(kind)
                              \o <<";","b","a","s","e","6","4",",">> \o Base64Encode(cut) \o <<")">>),
                   fs |-> fsys]
             ELSE IF ~env.dirOk
             THEN [res |-> Err("Failed to create image directory"), fs |-> fsys]
             ELSE IF ~env.writeOk
             THEN [res |-> Err("Failed to save image file"),
                   fs |-> [fsys EXCEPT !.dirs = @ \cup {cfg.image_path}]]
             ELSE [res |-> Ok(<<"!","[">> \o name \o <<"]","(">> \o filename \o <<")">>),
                   fs |-> [dirs |-> fsys.dirs \cup {cfg.image_path},
                           files |-> [q \in DOMAIN fsys.files \cup {PathJoin(cfg.image_path, filename)} |->
                                        IF q = PathJoin(cfg.image_path, filename) THEN cut
                                        ELSE fsys.files[q]]]]

\* run_with_mode: the result and the file system after the call.  env is the
\* environment of the call: the clock t, the outcome api of the naming
\* request, and whether create_dir_all (dirOk) and fs::write (writeOk) succeed
run_with_mode(file_stream, mode, cfg, fsys, env) ==
    IF file_stream = <<>> THEN [res |-> Err("Input stream is empty"), fs |-> fsys]
    ELSE LET name == ImageName(cfg, env)
             kind == InferGet(file_stream)
             filename == name \o <<".">> \o ExtensionOf(kind)
             file_path == PathJoin(cfg.image_path, filename)
         IN  IF mode = "Base64"
             THEN [res |-> Ok(<<"!","[">> \o name \o <<"]","(","d","a","t","a",":">> \o MimeOf(kind)
                              \o <<";","b","a","s","e","6","4",",">> \o Base64Encode(file_stream) \o <<")">>),
                   fs |-> fsys]
             ELSE IF ~env.dirOk
             THEN [res |-> Err("Failed to create image directory"), fs |-> fsys]
             ELSE IF ~env.writeOk
             THEN [res |-> Err("Failed to save image file"),
                   fs |-> [fsys EXCEPT !.dirs = @ \cup {cfg.image_path}]]
             ELSE [res |-> Ok(<<"!","[">> \o name \o <<"]","(">> \o filename \o <<")">>),
                   fs |-> [dirs |-> fsys.dirs \cup {cfg.image_path},
                           files |-> [q \in DOMAIN fsys.files \cup {file_path} |->
                                        IF q = file_path THEN file_stream
                                        ELSE fsys.files[q]]]]

\* the mode image2md::run and process_drawing_images_with_mode derive from SETTINGS
ModeOf(cfg) == IF cfg.image_path = <<>> THEN "Base64" ELSE "SaveToFile"

\* image2md::run
image2md_run(file_stream, cfg, fsys, env) ==
    run_with_mode(file_stream, ModeOf(cfg), cfg, fsys, env)

\* adjust_image_path_in_markdown
adjust_image_path_in_markdown(markdown, cfg) ==
    IF IsSome(cfg.output_path) /\ cfg.output_path.val # <<>>
    THEN LET output_dir == UnwrapOr(PathParent(cfg.output_path.val), <<".">>)
             relative == StripPrefix(cfg.image_path, output_dir)
         IN  IF IsSome(relative)
             THEN Replace(markdown, <<"]","(">> \o cfg.image_path, <<"]","(",".","/">> \o relative.val)
             ELSE markdown
    ELSE markdown

(***************************************************************************)
(* Paragraph/Run extractor: generator/docx2md.rs                           *)
(***************************************************************************)
ImageExtensions == {<<".","p","n","g">>, <<".","j","p","g">>, <<".","j","p","e","g">>, <<".","g","i","f">>, <<".","w","e","b","p">>}

\* process_drawing_images_with_mode; images is the media table in the order
\* its iteration yields the entries.  Ok(None) when no entry matches.
process_drawing_images_with_mode(images, cfg, fsys, env) ==
    LET hits == {i \in 1..Len(images) :
                    \E e \in ImageExtensions : EndsWith(images[i].name, e)}
    IN  IF hits = {} THEN [res |-> Ok(None), fs |-> fsys]
        ELSE LET first == CHOOSE i \in hits : \A j \in hits : i <= j
             IN  Bind(run_with_mode(images[first].data, ModeOf(cfg), cfg, fsys, env),
                      LAMBDA r :
                         IF ~IsOk(r.res) THEN r
                         ELSE LET final_md ==
                                     IF cfg.image_path # <<>>
                                     THEN adjust_image_path_in_markdown(r.res.val, cfg)
                                     ELSE r.res.val
                              IN  [res |-> Ok(Some(<<"\n", "\n">> \o final_md \o <<"\n", "\n">>)),
                                   fs |-> r.fs])

\* one run's content appended to the accumulated text (the inner loop of
\* process_paragraph); acc is [text, fs, err]
RECURSIVE RunContent(_, _, _, _, _)
RunContent(items, acc, images, cfg, env) ==
    IF items = <<>> \/ IsSome(acc.err) THEN acc
    ELSE LET it == Head(items)
         IN  IF it.kind = "Text"
             THEN RunContent(Tail(items), [acc EXCEPT !.text = @ \o it.text],
                             images, cfg, env)
             ELSE IF it.kind = "Drawing"
             THEN Bind(process_drawing_images_with_mode(images, cfg, acc.fs, env),
                       LAMBDA d :
                          IF ~IsOk(d.res)
                          THEN [acc EXCEPT !.err = Some(d.res.err), !.fs = d.fs]
                          ELSE RunContent(Tail(items),
                                          [acc EXCEPT !.text = @ \o UnwrapOr(d.res.val, <<>>),
                                                      !.fs = d.fs],
                                          images, cfg, env))
             ELSE RunContent(Tail(items), acc, images, cfg, env)

\* one run of the loop of process_paragraph: its properties, then its content
ParagraphRun(run, acc, images, cfg, env) ==
    LET props == run.property
        bold == IF IsSome(props) /\ IsSome(props.val.bold) THEN TRUE ELSE acc.has_bold
        size == IF IsSome(props) /\ IsSome(props.val.size)
                THEN props.val.size ELSE acc.font_size
    IN  Bind(RunContent(run.content, [text |-> acc.text, fs |-> acc.fs, err |-> None],
                        images, cfg, env),
             LAMBDA c : [text |-> c.text, has_bold |-> bold, font_size |-> size,
                         fs |-> c.fs, err |-> c.err])

\* the loop of process_paragraph over the runs: acc is
\* [text, has_bold, font_size, fs, err]
RECURSIVE ParagraphRuns(_, _, _, _, _)
ParagraphRuns(runs, acc, images, cfg, env) ==
    IF runs = <<>> \/ IsSome(acc.err) THEN acc
    ELSE Bind(ParagraphRun(Head(runs), acc, images, cfg, env),
              LAMBDA a : ParagraphRuns(Tail(runs), a, images, cfg, env))

\* the style signal of process_paragraph: <<is_heading, heading_level>>
StyleSignal(style) ==
    IF IsSome(style) /\ IsSome(check_style_for_heading(style.val))
    THEN check_style_for_heading(style.val).val
    ELSE <<FALSE, 1>>

\* the heading line of process_paragraph: "#".repeat(level.min(6)) + " " + trim
HeadingLine(level, text) == Rep("#", Min(level, 6)) \o <<" ">> \o Trim(text)

\* a renderer that lacks the test for empty text
ParagraphResult_NoEmptyTest(sig, acc, final) ==
    [res |-> IF IsSome(acc.err) THEN Err(acc.err.val)
             ELSE IF final[1] THEN Ok(HeadingLine(final[2], acc.text))
             ELSE Ok(acc.text),
     rendered_heading |-> ~IsSome(acc.err) /\ final[1],
     style_signal |-> sig,
     has_bold |-> acc.has_bold,
     font_size |-> acc.font_size,
     text_content |-> acc.text,
     final_is_heading |-> final[1],
     final_level |-> final[2],
     fs |-> acc.fs]

\* the result of process_paragraph from the accumulated runs: the rendered
\* paragraph, the signals it was classified from, the final classification,
\* and the file system after the call
ParagraphResult(sig, acc, final) ==
    LET heads == final[1] /\ Trim(acc.text) # <<>>
    IN  [res |-> IF IsSome(acc.err) THEN Err(acc.err.val)
                 ELSE IF heads THEN Ok(HeadingLine(final[2], acc.text))
                 ELSE Ok(acc.text),
         rendered_heading |-> ~IsSome(acc.err) /\ heads,
         style_signal |-> sig,
         has_bold |-> acc.has_bold,
         font_size |-> acc.font_size,
         text_content |-> acc.text,
         final_is_heading |-> final[1],
         final_level |-> final[2],
         fs |-> acc.fs]

\* process_paragraph
process_paragraph(paragraph, images, cfg, fsys, env) ==
    Bind(StyleSignal(paragraph.style), LAMBDA sig :
      Bind(ParagraphRuns(paragraph.content,
                         [text |-> <<>>, has_bold |-> FALSE, font_size |-> None,
                          fs |-> fsys, err |-> None],
                         images, cfg, env), LAMBDA acc :
        Bind(determine_heading_status(sig[1], sig[2], acc.has_bold,
                                      acc.font_size, acc.text), LAMBDA final :
          ParagraphResult(sig, acc, final))))

(***************************************************************************)
(* Inputs of the paragraph specification                                   *)
(***************************************************************************)
MaxRuns == 2

StyleIds == {<<"H","e","a","d","i","n","g","2">>, <<"H","e","a","d","i","n","g","7">>, <<"H","e","a","d","i","n","g","0">>, <<"h","e","a","d","i","n","g">>, <<"T","I","T","L","E">>,
             <<"S","u","b","t","i","t","l","e">>, <<"P","a","g","e","H","e","a","d","e","r">>, <<"H","e","a","d","e","r","4">>, <<"N","o","r","m","a","l">>, <<"M","y","H","e","a","d","i","n","g","3">>}

ParaStyles == {None} \cup {Some(s) : s \in StyleIds}

\* run properties: none, or optional bold and optional size in half-points
RunProps ==
    {None,
     Some([bold |-> Some(TRUE), size |-> None]),
     Some([bold |-> Some(FALSE), size |-> None]),
     Some([bold |-> None, size |-> Some(22)]),
     Some([bold |-> None, size |-> Some(27)]),
     Some([bold |-> Some(TRUE), size |-> Some(40)])}

RunTexts == {<<"A","b">>, <<"O","k",".">>, <<" ">>}

TextRuns == {[property |-> p, content |-> <<[kind |-> "Text", text |-> t]>>] :
                p \in RunProps, t \in RunTexts}

SeqsUpTo(S, n) == UNION {[1..k -> S] : k \in 0..n}

Paragraphs == {[style |-> s, content |-> c] :
                  s \in ParaStyles, c \in SeqsUpTo(TextRuns, MaxRuns)}

\* the settings the built-in Config.toml gives: inline images, no AI naming
DefaultSettings ==
    [image_path |-> <<>>, output_path |-> None,
     is_ai_enpower |-> FALSE, doubao_api_key |-> None]

EmptyFs == [dirs |-> {}, files |-> <<>>]

CalmEnv(t) == [t |-> t, api |-> Err("unreachable"), dirOk |-> TRUE, writeOk |-> TRUE]

InitParagraph ==
    /\ pc = "ready"
    /\ inp \in Paragraphs
    /\ out = None
    /\ SETTINGS = DefaultSettings
    /\ fs = EmptyFs
    /\ now = 1

\* one call of process_paragraph on a document without media
ProcessParagraph ==
    /\ pc = "ready"
    /\ \E r \in {process_paragraph(inp, <<>>, SETTINGS, fs, CalmEnv(now))} :
          /\ out' = r
          /\ fs' = r.fs
    /\ pc' = "done"
    /\ UNCHANGED <<inp, SETTINGS, now>>

NextParagraph == ProcessParagraph

SpecParagraph == InitParagraph /\ [][NextParagraph]_vars

CountLeading(c, s) ==
    LET other == {i \in 1..Len(s) : s[i] # c}
    IN  IF other = {} THEN Len(s)
        ELSE (CHOOSE i \in other : \A j \in other : i <= j) - 1

\* C1 (as claimed): every paragraph rendered as a heading has a classified
\* level between 1 and 6, and its line starts with exactly that many '#'
\* characters followed by a space.
C1_HeadingLevelInRange ==
    (pc = "done" /\ out.rendered_heading) =>
        /\ 1 <= out.final_level
        /\ out.final_level <= 6
        /\ CountLeading("#", out.res.val) = out.final_level
        /\ Len(out.res.val) > out.final_level
        /\ out.res.val[out.final_level + 1] = " "

\* The level the claim expects of a style recognised as a heading style,
\* and of the font-size signal (0 when the size gives no level).
SizeLevelInPoints(hp) ==
    IF hp >= 36 THEN 1 ELSE IF hp >= 32 THEN 2 ELSE IF hp >= 28 THEN 3
    ELSE IF hp >= 26 THEN 4 ELSE IF hp >= 24 THEN 5 ELSE 0

SizeSignalClassifies(font_size, text) ==
    /\ IsSome(font_size)
    /\ SizeLevelInPoints(font_size.val) # 0
    /\ Len(Trim(text)) < 100
    /\ ~EndsWith(Trim(text), <<".">>)

\* C2: style outranks font size, which outranks the bold heuristic: with a
\* recognised heading style the classification is (heading, style level)
\* whatever the boldness, size and text; without one, when the size signal
\* classifies the text as a heading, the level is the size-derived level
\* whatever the boldness.
C2_HeadingPrecedence ==
    pc = "done" =>
        /\ out.style_signal[1] =>
              (out.final_is_heading /\ out.final_level = out.style_signal[2])
        /\ (~out.style_signal[1] /\ SizeSignalClassifies(out.font_size, out.text_content)) =>
              (out.final_is_heading
               /\ out.final_level = SizeLevelInPoints(out.font_size.val))

\* a "Heading2" paragraph whose text is bold at 20pt is classified level 2
C2_Witness ==
    /\ pc = "done"
    /\ inp.style = Some(<<"H","e","a","d","i","n","g","2">>)
    /\ out.has_bold
    /\ out.font_size = Some(40)
    /\ Trim(out.text_content) # <<>>
    /\ out.final_is_heading
    /\ out.final_level = 2

\* the claimed bounds fail for a "Heading0" or a "Heading7" paragraph
C1_Witness ==
    /\ pc = "done"
    /\ out.rendered_heading
    /\ out.style_signal[1]

(***************************************************************************)
(* Table synthesizer: generator/pptx2md.rs                                 *)
(***************************************************************************)
\* the cells of one row pushed as " cell |"
RECURSIVE PushCells(_, _)
PushCells(markdown, row) ==
    IF row = <<>> THEN markdown
    ELSE PushCells(markdown \o <<" ">> \o Head(row) \o <<" ", "|">>, Tail(row))

\* "---|" pushed once per cell of the row
RECURSIVE PushSeparators(_, _)
PushSeparators(markdown, row) ==
    IF row = <<>> THEN markdown
    ELSE PushSeparators(markdown \o <<"-", "-", "-", "|">>, Tail(row))

\* the data rows, each pushed as '|', its cells and a newline
RECURSIVE PushRows(_, _)
PushRows(markdown, rows) ==
    IF rows = <<>> THEN markdown
    ELSE PushRows(PushCells(markdown \o <<"|">>, Head(rows)) \o <<"\n">>, Tail(rows))

\* a synthesizer that cuts every data row to the header's cell count
format_table_as_markdown_Truncating(rows) ==
    IF rows = <<>> THEN <<>>
    ELSE LET header == PushCells(<<"|">>, rows[1]) \o <<"\n">>
             sep == PushSeparators(header \o <<"|">>, rows[1]) \o <<"\n">>
             cut == [k \in 1..(Len(rows) - 1) |->
                        SubSeq(rows[k + 1], 1, Min(Len(rows[k + 1]), Len(rows[1])))]
         IN  PushRows(sep, cut)

\* format_table_as_markdown
format_table_as_markdown(rows) ==
    IF rows = <<>> THEN <<>>
    ELSE LET header == PushCells(<<"|">>, rows[1]) \o <<"\n">>
             sep == PushSeparators(header \o <<"|">>, rows[1]) \o <<"\n">>
         IN  PushRows(sep, Tail(rows))

MaxRows == 3

MaxCols == 2

Cells == {<<"a">>, <<"1">>}

ExampleTable == << <<<<"a">>, <<"b">>>>, <<<<"1">>, <<"2">>>>, <<<<"3">>, <<"4">>>> >>

ExampleMarkdown == <<"|"," ","a"," ","|"," ","b"," ","|">> \o <<"\n">> \o <<"|","-","-","-","|","-","-","-","|">> \o <<"\n">>
                   \o <<"|"," ","1"," ","|"," ","2"," ","|">> \o <<"\n">> \o <<"|"," ","3"," ","|"," ","4"," ","|">> \o <<"\n">>

Tables == SeqsUpTo(SeqsUpTo(Cells, MaxCols), MaxRows) \cup {ExampleTable}

InitTable ==
    /\ pc = "ready"
    /\ inp \in Tables
    /\ out = None
    /\ SETTINGS = DefaultSettings
    /\ fs = EmptyFs
    /\ now = 1

\* one call of format_table_as_markdown
FormatTable ==
    /\ pc = "ready"
    /\ out' = [markdown |-> format_table_as_markdown(inp)]
    /\ pc' = "done"
    /\ UNCHANGED <<inp, SETTINGS, fs, now>>

NextTable == FormatTable

SpecTable == InitTable /\ [][NextTable]_vars

\* the line the claim gives for a row: '|' then " cell |" for each cell
RowLine(row) ==
    <<"|">> \o Concat([i \in 1..Len(row) |-> <<" ">> \o row[i] \o <<" ", "|">>])
    \o <<"\n">>

SeparatorLine(n) == <<"|">> \o Concat([i \in 1..n |-> <<"-","-","-","|">>]) \o <<"\n">>

\* C3: zero rows render to the empty string; otherwise the output is the
\* header line of the first row, a separator line with one "---|" per cell
\* of the first row, then one line per remaining row holding exactly that
\* row's cells; the rows [[a,b],[1,2],[3,4]] render to the four lines of
\* the specification.
C3_TableRendering ==
    pc = "done" =>
        /\ inp = <<>> => out.markdown = <<>>
        /\ inp # <<>> =>
              out.markdown =
                  RowLine(inp[1]) \o SeparatorLine(Len(inp[1]))
                  \o Concat([k \in 1..(Len(inp) - 1) |-> RowLine(inp[k + 1])])
        /\ inp = ExampleTable => out.markdown = ExampleMarkdown

\* a rendered table whose second row has more cells than its first
C3_Witness ==
    /\ pc = "done"
    /\ Len(inp) >= 2
    /\ Len(inp[2]) > Len(inp[1])
    /\ out.markdown # <<>>

(***************************************************************************)
(* Image resolution: one call of the resolver, directly (image2md::run)    *)
(* or from a drawing of a word-processor paragraph                         *)
(***************************************************************************)
MaxTail == 1

MaxTicks == 1

TailBytes == {0, 255}

ImageBytes == {m \o t : m \in {<<>>, MagicPng, MagicJpeg, MagicGif, MagicZip},
                        t \in SeqsUpTo(TailBytes, MaxTail)}

\* the outcome of the naming request: a failure, a response without
\* content, a response with content
ApiOutcomes == {Err("request failed"), Ok(None), Ok(Some(<<"p","i","c"," ","1">>))}

\* the environment of one resolver call
Envs(t) == {[t |-> t, api |-> a, dirOk |-> d[1], writeOk |-> d[2]] :
               a \in ApiOutcomes, d \in {<<TRUE, TRUE>>, <<FALSE, TRUE>>, <<TRUE, FALSE>>}}

ImagePaths == {<<>>, <<"i","m","g">>, <<"p","i","c">>, <<"/","o","/","i","m","g">>}

OutputPaths == {None, Some(<<>>), Some(<<"o","u","t",".","m","d">>), Some(<<"p","i","c","/","o","u","t",".","m","d">>), Some(<<"/","o","/","o","u","t",".","m","d">>)}

Naming == {[ai |-> FALSE, key |-> None], [ai |-> TRUE, key |-> None],
           [ai |-> TRUE, key |-> Some(<<"k">>)]}

\* the settings Settings::new and update_settings_with_cli_args can leave
Configs == {[image_path |-> i, output_path |-> o,
             is_ai_enpower |-> n.ai, doubao_api_key |-> n.key] :
               i \in ImagePaths, o \in OutputPaths, n \in Naming}

InitImage ==
    /\ pc = "ready"
    /\ now \in 9..(9 + MaxTicks)
    /\ inp \in [bytes : ImageBytes, env : Envs(now)]
    /\ out = None
    /\ SETTINGS \in Configs
    /\ fs = EmptyFs

\* image2md::run on the input bytes
ImageRun ==
    /\ pc = "ready"
    /\ \E r \in {image2md_run(inp.bytes, SETTINGS, fs, inp.env)} :
          /\ out' = [via |-> "run", res |-> r.res,
                     md |-> IF IsOk(r.res) THEN Some(r.res.val) ELSE None]
          /\ fs' = r.fs
    /\ pc' = "done"
    /\ UNCHANGED <<inp, SETTINGS, now>>

\* the image reference inside the text a drawing contributes
Unwrapped(res) ==
    IF IsOk(res) /\ IsSome(res.val)
    THEN Some(SubSeq(res.val.val, 3, Len(res.val.val) - 2))
    ELSE None

\* process_drawing_images_with_mode on a media table holding the input bytes
DrawingImage ==
    /\ pc = "ready"
    /\ \E r \in {process_drawing_images_with_mode(
                    <<[name |-> <<"w","o","r","d","/","m","e","d","i","a","/","i","m","a","g","e","1",".","p","n","g">>, data |-> inp.bytes]>>,
                    SETTINGS, fs, inp.env)} :
          /\ out' = [via |-> "drawing", res |-> r.res, md |-> Unwrapped(r.res)]
          /\ fs' = r.fs
    /\ pc' = "done"
    /\ UNCHANGED <<inp, SETTINGS, now>>

NextImage == ImageRun \/ DrawingImage

SpecImage == InitImage /\ [][NextImage]_vars

\* the value of one base64 character, 64 for the padding
B64Value(c) ==
    IF c = "=" THEN 64
    ELSE (CHOOSE i \in 1..Len(B64Alphabet) : B64Alphabet[i] = c) - 1

\* the bytes a standard base64 text decodes to (text of whole quads)
RECURSIVE Base64Decode(_)
Base64Decode(p) ==
    IF Len(p) < 4 THEN <<>>
    ELSE LET a == B64Value(p[1])
             b == B64Value(p[2])
             c == B64Value(p[3])
             d == B64Value(p[4])
             rest == Base64Decode(SubSeq(p, 5, Len(p)))
         IN  IF c = 64 THEN <<a * 4 + b \div 16>>
             ELSE IF d = 64 THEN <<a * 4 + b \div 16, (b % 16) * 16 + c \div 4>>
             ELSE <<a * 4 + b \div 16, (b % 16) * 16 + c \div 4, (c % 4) * 64 + d>> \o rest

\* p is the standard base64 encoding of bytes: whole quads over the
\* alphabet, padded only at the end, decoding to bytes
IsStandardBase64Of(p, bytes) ==
    /\ Len(p) = 4 * ((Len(bytes) + 2) \div 3)
    /\ \A i \in 1..Len(p) : p[i] \in Range(B64Alphabet) \cup {"="}
    /\ \A i \in 1..Len(p) : p[i] = "=" => (i > Len(p) - 2 /\ p[Len(p)] = "=")
    /\ Base64Decode(p) = bytes

\* C4: in base64 mode (no image directory configured) a call on non-empty
\* bytes succeeds with exactly ![<name>](data:<mime>;base64,<payload>),
\* <payload> the standard base64 encoding of the whole input, and writes
\* no file.
C4_Base64Mode ==
    (pc = "done" /\ SETTINGS.image_path = <<>> /\ inp.bytes # <<>>) =>
        /\ IsOk(out.res)
        /\ IsSome(out.md)
        /\ LET md == out.md.val
               prefix == <<"!","[">> \o ImageName(SETTINGS, inp.env) \o <<"]","(","d","a","t","a",":">>
                         \o MimeOf(InferGet(inp.bytes)) \o <<";","b","a","s","e","6","4",",">>
           IN  /\ StartsWith(md, prefix)
               /\ Len(md) > Len(prefix)
               /\ md[Len(md)] = ")"
               /\ IsStandardBase64Of(SubSeq(md, Len(prefix) + 1, Len(md) - 1), inp.bytes)
        /\ fs = EmptyFs

\* a PNG of more than three bytes resolved inline
C4_Witness ==
    /\ pc = "done"
    /\ SETTINGS.image_path = <<>>
    /\ Len(inp.bytes) > 3
    /\ StartsWith(inp.bytes, MagicPng)
    /\ IsOk(out.res)

C5_Witness ==
    /\ pc = "done"
    /\ out.via = "drawing"
    /\ SETTINGS.image_path = <<"p","i","c">>
    /\ SETTINGS.output_path = Some(<<"o","u","t",".","m","d">>)
    /\ IsOk(out.res)

(***************************************************************************)
(* Format dispatcher: lib.rs                                               *)
(***************************************************************************)
\* a mapping that compares the extension without lowering its case
get_file_type_from_extension_CaseSensitive(file_path) ==
    IF ~IsSome(file_path) \/ ~IsSome(PathExtension(file_path.val)) THEN None
    ELSE LET extension == PathExtension(file_path.val).val
         IN  IF extension = <<"d","o","c","x">> THEN Some(mDocx)
             ELSE IF extension = <<"x","l","s","x">> THEN Some(mXlsx)
             ELSE IF extension = <<"p","p","t","x">> THEN Some(mPptx)
             ELSE IF extension = <<"c","s","v">> THEN Some(mCsv)
             ELSE IF extension = <<"w","a","v">> THEN Some(mWav)
             ELSE IF extension \in {<<"j","p","g">>, <<"j","p","e","g">>} THEN Some(mImageJpeg)
             ELSE IF extension = <<"p","n","g">> THEN Some(mImagePng)
             ELSE IF extension = <<"g","i","f">> THEN Some(mImageGif)
             ELSE IF extension \in {<<"h","t","m","l">>, <<"h","t","m">>} THEN Some(mHtml)
             ELSE None

\* get_file_type_from_extension
get_file_type_from_extension(file_path) ==
    IF ~IsSome(file_path) \/ ~IsSome(PathExtension(file_path.val)) THEN None
    ELSE LET extension == ToLowercase(PathExtension(file_path.val).val)
         IN  IF extension = <<"d","o","c","x">> THEN Some(mDocx)
             ELSE IF extension = <<"x","l","s","x">> THEN Some(mXlsx)
             ELSE IF extension = <<"p","p","t","x">> THEN Some(mPptx)
             ELSE IF extension = <<"c","s","v">> THEN Some(mCsv)
             ELSE IF extension = <<"w","a","v">> THEN Some(mWav)
             ELSE IF extension \in {<<"j","p","g">>, <<"j","p","e","g">>} THEN Some(mImageJpeg)
             ELSE IF extension = <<"p","n","g">> THEN Some(mImagePng)
             ELSE IF extension = <<"g","i","f">> THEN Some(mImageGif)
             ELSE IF extension \in {<<"h","t","m","l">>, <<"h","t","m">>} THEN Some(mHtml)
             ELSE None

\* the MIME type convert matches on, given the sniffed one
ResolveMime(sniffed, file_path) ==
    IF sniffed \in {mZip, mTextPlain} /\ IsSome(get_file_type_from_extension(file_path))
    THEN get_file_type_from_extension(file_path).val
    ELSE sniffed

\* the arm of convert's match the resolved MIME type selects
RouteOf(mime_type) ==
    IF mime_type \in {mWavX, mWav, mWave} THEN "wav"
    ELSE IF mime_type = mDocx THEN "docx"
    ELSE IF mime_type \in {mImageJpeg, mImagePng, mImageGif} THEN "image"
    ELSE IF mime_type = mPptx THEN "pptx"
    ELSE IF mime_type = mXlsx THEN "xlsx"
    ELSE IF mime_type \in {mCsv, mAppCsv} THEN "csv"
    ELSE IF mime_type = mHtml THEN "html"
    ELSE "none"

\* the prefix convert puts before a converter's error
FailurePrefix(route) ==
    CASE route = "wav" -> "Failed to convert WAV: "
      [] route = "docx" -> "Failed to convert DOCX: "
      [] route = "image" -> "Failed to convert image: "
      [] route = "pptx" -> "Failed to convert PPTX: "
      [] route = "xlsx" -> "Failed to convert XLSX: "
      [] route = "csv" -> "Failed to convert CSV: "
      [] route = "html" -> "Failed to convert HTML: "

\* convert: the route taken, the resolved MIME type, the result, and whether
\* an error is the dispatcher's own.  conv is the outcome of the converter
\* the route invokes: whether it succeeds and, for a spreadsheet, how many
\* sheets it yields.
convert(file, conv) ==
    IF ~IsSome(InferGet(file.file_stream))
    THEN [route |-> "none", mime |-> None, own |-> TRUE,
          res |-> Err([msg |-> "Could not determine file type", arg |-> <<>>])]
    ELSE LET mime_type == ResolveMime(InferGet(file.file_stream).val, file.file_path)
             route == RouteOf(mime_type)
         IN  IF route = "none"
             THEN [route |-> route, mime |-> Some(mime_type), own |-> TRUE,
                   res |-> Err([msg |-> "Unsupported file type: ", arg |-> mime_type])]
             ELSE IF ~conv.ok
             THEN [route |-> route, mime |-> Some(mime_type), own |-> FALSE,
                   res |-> Err([msg |-> FailurePrefix(route), arg |-> <<>>])]
             ELSE IF route = "xlsx" /\ conv.sheets = 0
             THEN [route |-> route, mime |-> Some(mime_type), own |-> TRUE,
                   res |-> Err([msg |-> "No sheets found in XLSX file", arg |-> <<>>])]
             ELSE [route |-> route, mime |-> Some(mime_type), own |-> FALSE,
                   res |-> Ok(route)]

\* "a,b" and a line feed: plain text, no magic bytes
CsvBytes == <<97, 44, 98, 10>>

DispatchBytes == {<<>>, CsvBytes, MagicZip \o <<0>>, MagicPng, MagicJpeg,
                  MagicGif \o <<56>>, MagicWav}

DispatchPaths ==
    {None} \cup
    {Some(q) : q \in {<<"d","e","c","k",".","p","p","t","x">>, <<"D","E","C","K",".","P","P","T","X">>, <<"d","/","D","e","c","k",".","P","p","t","x">>, <<".","p","p","t","x">>, <<"d","/",".","d","o","c","x">>,
                      <<"a",".","d","o","c","x">>, <<"A",".","D","O","C","X">>, <<"a",".","x","l","s","x">>, <<"b",".","X","L","S","X">>, <<"d","a","t","a",".","c","s","v">>, <<"s",".","w","a","v">>,
                      <<"i",".","j","p","g">>, <<"i",".","j","p","e","g">>, <<"i",".","p","n","g">>, <<"i",".","g","i","f">>, <<"p",".","h","t","m","l">>, <<"p",".","h","t","m">>,
                      <<"n","o","t","e","s",".","t","x","t">>, <<"p","p","t","x">>, <<"a",".","p","p","t","x","/">>}}

\* xlsx_to_csv is never Ok with no sheet (converter/xlsx2csv.rs:60-63)
ConverterOutcomes == [ok : BOOLEAN, sheets : {1, 2}]

InitConvert ==
    /\ pc = "ready"
    /\ inp \in [file : [file_path : DispatchPaths, file_stream : DispatchBytes],
                conv : ConverterOutcomes]
    /\ out = None
    /\ SETTINGS = DefaultSettings
    /\ fs = EmptyFs
    /\ now = 1

\* one call of convert
Convert ==
    /\ pc = "ready"
    /\ out' = convert(inp.file, inp.conv)
    /\ pc' = "done"
    /\ UNCHANGED <<inp, SETTINGS, fs, now>>

NextConvert == Convert

SpecConvert == InitConvert /\ [][NextConvert]_vars

SniffedZip == InferGet(inp.file.file_stream) = Some(mZip)

\* the path, as text, ends in the dot-extension e in any letter case
PathEndsIn(e) ==
    IsSome(inp.file.file_path) /\ EndsWith(ToLowercase(inp.file.file_path.val), e)

\* the text after the last '/' of the path
LastSegment(q) ==
    LET slashes == {i \in 1..Len(q) : q[i] = "/"}
    IN  IF slashes = {} THEN q
        ELSE SubSeq(q, (CHOOSE i \in slashes : \A j \in slashes : j <= i) + 1, Len(q))

\* the path names a file with a non-empty stem before the dot-extension e
PathHasStemBefore(e) ==
    PathEndsIn(e) /\ Len(LastSegment(inp.file.file_path.val)) > Len(e)

IsUnsupported(res) == ~IsOk(res) /\ res.err.msg = "Unsupported file type: "

\* C6 (as claimed): a ZIP-sniffed buffer whose path ends in .pptx, .docx or
\* .xlsx, in any letter case, is routed to the presentation, word-processor
\* or spreadsheet converter and never gets the unsupported-format error.
C6_ZipFallbackByPathEnding ==
    (pc = "done" /\ SniffedZip) =>
        /\ PathEndsIn(<<".","p","p","t","x">>) => (out.route = "pptx" /\ ~IsUnsupported(out.res))
        /\ PathEndsIn(<<".","d","o","c","x">>) => (out.route = "docx" /\ ~IsUnsupported(out.res))
        /\ PathEndsIn(<<".","x","l","s","x">>) => (out.route = "xlsx" /\ ~IsUnsupported(out.res))

\* C6 (amended): the same, for a path whose file name has a non-empty stem
\* before the extension; a file named just ".pptx" has no extension.
C6_ZipFallbackByExtension ==
    (pc = "done" /\ SniffedZip) =>
        /\ PathHasStemBefore(<<".","p","p","t","x">>) => (out.route = "pptx" /\ ~IsUnsupported(out.res))
        /\ PathHasStemBefore(<<".","d","o","c","x">>) => (out.route = "docx" /\ ~IsUnsupported(out.res))
        /\ PathHasStemBefore(<<".","x","l","s","x">>) => (out.route = "xlsx" /\ ~IsUnsupported(out.res))

\* a ZIP buffer from "DECK.PPTX" routed to the presentation converter
C6_Witness ==
    /\ pc = "done"
    /\ SniffedZip
    /\ inp.file.file_path = Some(<<"D","E","C","K",".","P","P","T","X">>)
    /\ out.route = "pptx"

\* C7 (as claimed): plain text, for which sniffing gives no type, with a
\* path of known extension such as .csv is routed by the extension's MIME
\* mapping to the matching converter instead of failing.
C7_TextFallback ==
    (pc = "done" /\ inp.file.file_stream = CsvBytes /\ PathHasStemBefore(<<".","c","s","v">>)) =>
        out.route = "csv"

\* C8 (as claimed): every failure of the dispatcher's own (no converter
\* failed) is the unsupported-format error, carrying the resolved MIME type.
C8_OnlyUnsupported ==
    (pc = "done" /\ ~IsOk(out.res) /\ out.own) =>
        /\ IsUnsupported(out.res)
        /\ out.mime = Some(out.res.err.arg)

(***************************************************************************)
(* Word-processor tables: generator/docx2md.rs                             *)
(***************************************************************************)
\* extract_cell_text: the run texts of the cell's paragraphs, a space after
\* each paragraph, trimmed; a cell is the sequence of its paragraphs' texts
RECURSIVE CellParagraphs(_, _)
CellParagraphs(paras, text) ==
    IF paras = <<>> THEN text
    ELSE LET t == text \o Head(paras)
         IN  CellParagraphs(Tail(paras),
                            IF t # <<>> /\ ~EndsWith(t, <<" ">>) THEN t \o <<" ">> ELSE t)

extract_cell_text(cell) == Trim(CellParagraphs(cell, <<>>))

\* process_table on the rows of a table, each a sequence of cells: it pushes
\* the header row, the separator row and the data rows exactly as
\* format_table_as_markdown does, over the extracted cell texts
process_table(rows) ==
    format_table_as_markdown(
        [r \in 1..Len(rows) |-> [c \in 1..Len(rows[r]) |-> extract_cell_text(rows[r][c])]])

(***************************************************************************)
(* Container reader and word-processor path: generator/docx2md.rs          *)
(*                                                                         *)
(* An archive is [valid, entries, docOk, body]: whether the bytes open as  *)
(* a ZIP archive, its entries [name, data] in archive order, whether the   *)
(* document part parses, and the parsed body.  The media table is a        *)
(* HashMap: order is the order in which its iteration yields the entries.  *)
(***************************************************************************)
\* the entries of the archive below the media directory
RECURSIVE MediaEntries(_, _)
MediaEntries(entries, prefix) ==
    IF entries = <<>> THEN <<>>
    ELSE IF StartsWith(Head(entries).name, prefix)
         THEN <<[name |-> Head(entries).name, data |-> Head(entries).data]>>
              \o MediaEntries(Tail(entries), prefix)
         ELSE MediaEntries(Tail(entries), prefix)

\* the media table as its iteration yields it
Iterate(media, order) == [i \in 1..Len(media) |-> media[order[i]]]

IterationOrders(n) == {f \in [1..n -> 1..n] : \A i, j \in 1..n : f[i] = f[j] => i = j}

\* a loop that pushes every rendering, blank or not
RECURSIVE BodyBlocks_KeepingBlank(_, _, _, _, _)
BodyBlocks_KeepingBlank(blocks, acc, images, cfg, env) ==
    IF blocks = <<>> \/ IsSome(acc.err) THEN acc
    ELSE LET b == Head(blocks)
         IN  IF b.kind = "Paragraph"
             THEN Bind(process_paragraph(b.paragraph, images, cfg, acc.fs, env),
                       LAMBDA r :
                          IF ~IsOk(r.res)
                          THEN [acc EXCEPT !.err = Some(r.res.err), !.fs = r.fs]
                          ELSE BodyBlocks_KeepingBlank(Tail(blocks),
                                          [markdown |-> acc.markdown \o r.res.val \o <<"\n", "\n">>,
                                           fs |-> r.fs, err |-> None],
                                          images, cfg, env))
             ELSE IF b.kind = "Table"
             THEN Bind(process_table(b.rows),
                       LAMBDA t :
                          BodyBlocks_KeepingBlank(Tail(blocks),
                                     [markdown |-> acc.markdown \o t \o <<"\n", "\n">>,
                                      fs |-> acc.fs, err |-> None],
                                     images, cfg, env))
             ELSE BodyBlocks_KeepingBlank(Tail(blocks), acc, images, cfg, env)

\* the loop of run_with_images over the body: acc is [markdown, fs, err]
RECURSIVE BodyBlocks(_, _, _, _, _)
BodyBlocks(blocks, acc, images, cfg, env) ==
    IF blocks = <<>> \/ IsSome(acc.err) THEN acc
    ELSE LET b == Head(blocks)
         IN  IF b.kind = "Paragraph"
             THEN Bind(process_paragraph(b.paragraph, images, cfg, acc.fs, env),
                       LAMBDA r :
                          IF ~IsOk(r.res)
                          THEN [acc EXCEPT !.err = Some(r.res.err), !.fs = r.fs]
                          ELSE BodyBlocks(Tail(blocks),
                                          [markdown |-> IF Trim(r.res.val) # <<>>
                                                        THEN acc.markdown \o r.res.val \o <<"\n", "\n">>
                                                        ELSE acc.markdown,
                                           fs |-> r.fs, err |-> None],
                                          images, cfg, env))
             ELSE IF b.kind = "Table"
             THEN Bind(process_table(b.rows),
                       LAMBDA t :
                          BodyBlocks(Tail(blocks),
                                     [markdown |-> IF Trim(t) # <<>>
                                                   THEN acc.markdown \o t \o <<"\n", "\n">>
                                                   ELSE acc.markdown,
                                      fs |-> acc.fs, err |-> None],
                                     images, cfg, env))
             ELSE BodyBlocks(Tail(blocks), acc, images, cfg, env)

\* run_with_images of docx2md
docx_run_with_images(archive, order, cfg, fsys, env) ==
    IF ~archive.valid THEN [res |-> Err("Failed to open DOCX archive"), fs |-> fsys]
    ELSE IF ~archive.docOk THEN [res |-> Err("Failed to read DOCX file"), fs |-> fsys]
    ELSE Bind(BodyBlocks(archive.body,
                         [markdown |-> <<"#"," ","D","o","c","u","m","e","n","t">> \o <<"\n", "\n">>, fs |-> fsys, err |-> None],
                         Iterate(MediaEntries(archive.entries, <<"w","o","r","d","/","m","e","d","i","a","/">>), order),
                         cfg, env),
              LAMBDA acc : [res |-> IF IsSome(acc.err) THEN Err(acc.err.val)
                                    ELSE Ok(acc.markdown),
                            fs |-> acc.fs])

TempInput == <<"/","t","m","p","/","t","e","m","p","_","i","n","p","u","t",".","d","o","c","x">>

TempOutput == <<"/","t","m","p","/","t","e","m","p","_","o","u","t","p","u","t",".","m","d">>

\* the Markdown the external binary writes for a document: a text the
\* document determines
PandocMarkdown(archive) ==
    <<"p","a","n","d","o","c",":">> \o ToDecimal(Len(archive.entries))
    \o <<"/">> \o ToDecimal(Len(archive.body))

RemoveFile(fsys, q) ==
    [fsys EXCEPT !.files = [x \in DOMAIN fsys.files \ {q} |-> fsys.files[x]]]

WriteFile(fsys, q, data) ==
    [fsys EXCEPT !.files = [x \in DOMAIN fsys.files \cup {q} |->
                               IF x = q THEN data ELSE fsys.files[x]]]

\* run_with_pandoc: pandoc is the outcome of the external steps, whether the
\* temporary input can be written (writeOk), the binary starts (spawnOk),
\* exits with success (exitOk) and leaves a readable output (readOk); the
\* Markdown pandoc writes is left as it is by process_pandoc_images and
\* convert_image_refs_to_base64 when it holds no media path
run_with_pandoc(archive, cfg, fsys, pandoc) ==
    IF ~pandoc.writeOk
    THEN [res |-> Err("Failed to write temporary DOCX file"), fs |-> fsys]
    ELSE IF ~pandoc.spawnOk
    THEN [res |-> Err("Failed to execute pandoc"), fs |-> WriteFile(fsys, TempInput, archive)]
    ELSE IF ~pandoc.exitOk
    THEN [res |-> Err("Pandoc execution failed"), fs |-> WriteFile(fsys, TempInput, archive)]
    ELSE IF ~pandoc.readOk
    THEN [res |-> Err("Failed to read pandoc output"), fs |-> WriteFile(fsys, TempInput, archive)]
    ELSE [res |-> Ok(PandocMarkdown(archive)), fs |-> RemoveFile(fsys, TempInput)]

\* docx2md::run
docx_run(archive, order, cfg, fsys, env, pandoc) ==
    IF pandoc.available THEN run_with_pandoc(archive, cfg, fsys, pandoc)
    ELSE docx_run_with_images(archive, order, cfg, fsys, env)

(***************************************************************************)
(* Slide extractor and presentation path: generator/pptx2md.rs             *)
(*                                                                         *)
(* A slide is the sequence of events the XML reader yields for it, each    *)
(* [type, name, embed, text] with type Start, End, Empty, Text or Err (a   *)
(* reader error); past the last event the reader yields Eof.               *)
(***************************************************************************)
\* extract_text_run, from event i on: [res, pos]
RECURSIVE extract_text_run(_, _, _)
extract_text_run(events, i, text) ==
    IF i > Len(events) THEN [res |-> Ok(text), pos |-> i]
    ELSE IF events[i].type = "Text"
    THEN extract_text_run(events, i + 1, text \o events[i].text)
    ELSE IF events[i].type = "End" /\ events[i].name = "a:t"
    THEN [res |-> Ok(text), pos |-> i + 1]
    ELSE IF events[i].type = "Err"
    THEN [res |-> Err("Error extracting text run"), pos |-> i]
    ELSE extract_text_run(events, i + 1, text)

\* extract_table_cell, from event i on: [res, pos]
RECURSIVE extract_table_cell(_, _, _)
extract_table_cell(events, i, cell_content) ==
    IF i > Len(events) THEN [res |-> Ok(Trim(cell_content)), pos |-> i]
    ELSE IF events[i].type = "Text"
    THEN extract_table_cell(events, i + 1, cell_content \o events[i].text)
    ELSE IF events[i].type = "End" /\ events[i].name = "a:tc"
    THEN [res |-> Ok(Trim(cell_content)), pos |-> i + 1]
    ELSE IF events[i].type = "Err"
    THEN [res |-> Err("Error extracting table cell"), pos |-> i]
    ELSE extract_table_cell(events, i + 1, cell_content)

\* is_title_text
is_title_text(text) ==
    LET trimmed == Trim(text)
    IN  /\ StrLen(trimmed) < 100
        /\ ~EndsWith(trimmed, <<".">>)
        /\ ~EndsWith(trimmed, <<"!">>)
        /\ ~EndsWith(trimmed, <<"?">>)
        /\ ~Contains(trimmed, <<"\n">>)

\* extract_text_body, from event i on: [res, pos]
RECURSIVE extract_text_body(_, _, _, _)
extract_text_body(events, i, text_content, current_paragraph) ==
    IF i > Len(events) THEN [res |-> Ok(text_content), pos |-> i]
    ELSE IF events[i].type = "Start" /\ events[i].name = "a:t"
    THEN Bind(extract_text_run(events, i + 1, <<>>),
              LAMBDA r :
                 IF ~IsOk(r.res) THEN r
                 ELSE extract_text_body(events, r.pos, text_content,
                                        current_paragraph \o r.res.val))
    ELSE IF events[i].type = "End" /\ events[i].name = "a:p"
    THEN IF Trim(current_paragraph) # <<>>
         THEN extract_text_body(events, i + 1,
                                text_content
                                \o (IF is_title_text(current_paragraph)
                                    THEN <<"#","#","#"," ">> ELSE <<"-"," ">>)
                                \o Trim(current_paragraph) \o <<"\n">>,
                                <<>>)
         ELSE extract_text_body(events, i + 1, text_content, current_paragraph)
    ELSE IF events[i].type = "End" /\ events[i].name = "p:txBody"
    THEN [res |-> Ok(text_content), pos |-> i + 1]
    ELSE IF events[i].type = "Err"
    THEN [res |-> Err("Error extracting text body"), pos |-> i]
    ELSE extract_text_body(events, i + 1, text_content, current_paragraph)

\* extract_table, from event i on: [res, pos]
RECURSIVE extract_table(_, _, _)
extract_table(events, i, rows) ==
    IF i > Len(events) THEN [res |-> Ok(format_table_as_markdown(rows)), pos |-> i]
    ELSE IF events[i].type = "Start" /\ events[i].name = "a:tr"
    THEN extract_table(events, i + 1, Append(rows, <<>>))
    ELSE IF events[i].type = "Start" /\ events[i].name = "a:tc"
    THEN Bind(extract_table_cell(events, i + 1, <<>>),
              LAMBDA c :
                 IF ~IsOk(c.res) THEN c
                 ELSE extract_table(events, c.pos,
                                    IF rows = <<>> THEN rows
                                    ELSE [rows EXCEPT ![Len(rows)] = Append(rows[Len(rows)], c.res.val)]))
    ELSE IF events[i].type = "End" /\ events[i].name = "a:tbl"
    THEN [res |-> Ok(format_table_as_markdown(rows)), pos |-> i + 1]
    ELSE IF events[i].type = "Err"
    THEN [res |-> Err("Error extracting table"), pos |-> i]
    ELSE extract_table(events, i + 1, rows)

\* process_image_element: [res, fs], res Ok(None) without an r:embed attribute
process_image_element(element, images, cfg, fsys, env) ==
    IF ~IsSome(element.embed) THEN [res |-> Ok(None), fs |-> fsys]
    ELSE LET hits == {k \in 1..Len(images) :
                         \/ Contains(images[k].name, element.embed.val)
                         \/ \E e \in ImageExtensions : EndsWith(images[k].name, e)}
         IN  IF hits = {}
             THEN [res |-> Ok(Some(<<"!","[","I","m","a","g","e"," ","n","o","t"," ","f","o","u","n","d","]","(">> \o element.embed.val \o <<")">>)),
                   fs |-> fsys]
             ELSE Bind(image2md_run(images[CHOOSE k \in hits : \A j \in hits : k <= j].data,
                                    cfg, fsys, env),
                       LAMBDA r : IF IsOk(r.res)
                                  THEN [res |-> Ok(Some(r.res.val)), fs |-> r.fs]
                                  ELSE r)

\* parse_slide_content, from event i on: [res, fs]
RECURSIVE parse_slide_content(_, _, _, _, _, _, _)
parse_slide_content(events, i, markdown, images, cfg, fsys, env) ==
    IF i > Len(events) THEN [res |-> Ok(markdown), fs |-> fsys]
    ELSE IF events[i].type = "Start" /\ events[i].name = "p:txBody"
    THEN Bind(extract_text_body(events, i + 1, <<>>, <<>>),
              LAMBDA r :
                 IF ~IsOk(r.res) THEN [res |-> r.res, fs |-> fsys]
                 ELSE parse_slide_content(events, r.pos,
                                          IF Trim(r.res.val) # <<>>
                                          THEN markdown \o r.res.val \o <<"\n", "\n">>
                                          ELSE markdown,
                                          images, cfg, fsys, env))
    ELSE IF events[i].type = "Start" /\ events[i].name = "a:tbl"
    THEN Bind(extract_table(events, i + 1, <<>>),
              LAMBDA r :
                 IF ~IsOk(r.res) THEN [res |-> r.res, fs |-> fsys]
                 ELSE parse_slide_content(events, r.pos, markdown \o r.res.val \o <<"\n">>,
                                          images, cfg, fsys, env))
    ELSE IF events[i].type = "Start" /\ events[i].name = "a:blip"
    THEN Bind(process_image_element(events[i], images, cfg, fsys, env),
              LAMBDA r :
                 IF ~IsOk(r.res) THEN r
                 ELSE parse_slide_content(events, i + 1,
                                          IF IsSome(r.res.val)
                                          THEN markdown \o r.res.val.val \o <<"\n", "\n">>
                                          ELSE markdown,
                                          images, cfg, r.fs, env))
    ELSE IF events[i].type = "Err"
    THEN [res |-> Err("Error parsing slide XML"), fs |-> fsys]
    ELSE parse_slide_content(events, i + 1, markdown, images, cfg, fsys, env)

IsSlideEntry(e) == StartsWith(e.name, <<"p","p","t","/","s","l","i","d","e","s","/">>) /\ EndsWith(e.name, <<".","x","m","l">>)

\* a slide loop that numbers a slide by the count of archive entries read
RECURSIVE SlideEntries_CountingEntries(_, _, _, _, _)
SlideEntries_CountingEntries(entries, acc, images, cfg, env) ==
    IF entries = <<>> \/ IsSome(acc.err) THEN acc
    ELSE IF ~IsSlideEntry(Head(entries))
    THEN SlideEntries_CountingEntries(Tail(entries),
                                      [acc EXCEPT !.slide_num = acc.slide_num + 1],
                                      images, cfg, env)
    ELSE Bind(parse_slide_content(Head(entries).data, 1, <<>>, images, cfg, acc.fs, env),
              LAMBDA r :
                 IF ~IsOk(r.res)
                 THEN [acc EXCEPT !.err = Some(r.res.err), !.fs = r.fs]
                 ELSE SlideEntries_CountingEntries(Tail(entries),
                                   [markdown |-> acc.markdown \o <<"#","#"," ","S","l","i","d","e"," ">>
                                                 \o ToDecimal(acc.slide_num) \o <<"\n", "\n">>
                                                 \o r.res.val \o <<"\n", "\n">> \o <<"-","-","-">> \o <<"\n", "\n">>,
                                    slide_num |-> acc.slide_num + 1,
                                    fs |-> r.fs, err |-> None],
                                   images, cfg, env))

\* the slide loop of run_with_images: acc is [markdown, slide_num, fs, err]
RECURSIVE SlideEntries(_, _, _, _, _)
SlideEntries(entries, acc, images, cfg, env) ==
    IF entries = <<>> \/ IsSome(acc.err) THEN acc
    ELSE IF ~IsSlideEntry(Head(entries))
    THEN SlideEntries(Tail(entries), acc, images, cfg, env)
    ELSE Bind(parse_slide_content(Head(entries).data, 1, <<>>, images, cfg, acc.fs, env),
              LAMBDA r :
                 IF ~IsOk(r.res)
                 THEN [acc EXCEPT !.err = Some(r.res.err), !.fs = r.fs]
                 ELSE SlideEntries(Tail(entries),
                                   [markdown |-> acc.markdown \o <<"#","#"," ","S","l","i","d","e"," ">>
                                                 \o ToDecimal(acc.slide_num) \o <<"\n", "\n">>
                                                 \o r.res.val \o <<"\n", "\n">> \o <<"-","-","-">> \o <<"\n", "\n">>,
                                    slide_num |-> acc.slide_num + 1,
                                    fs |-> r.fs, err |-> None],
                                   images, cfg, env))

\* run_with_images of pptx2md
pptx_run_with_images(archive, order, cfg, fsys, env) ==
    IF ~archive.valid THEN [res |-> Err("Failed to open PPTX archive"), fs |-> fsys]
    ELSE Bind(SlideEntries(archive.entries,
                           [markdown |-> <<"#"," ","P","o","w","e","r","P","o","i","n","t"," ","P","r","e","s","e","n","t","a","t","i","o","n">> \o <<"\n", "\n">>,
                            slide_num |-> 1, fs |-> fsys, err |-> None],
                           Iterate(MediaEntries(archive.entries, <<"p","p","t","/","m","e","d","i","a","/">>), order),
                           cfg, env),
              LAMBDA acc : [res |-> IF IsSome(acc.err) THEN Err(acc.err.val)
                                    ELSE Ok(acc.markdown),
                            fs |-> acc.fs])

(***************************************************************************)
(* Conversions of one container, run twice on the same input               *)
(***************************************************************************)
MaxMedia == 2

MaxSlides == 2

MediaPool(dir) ==
    {[name |-> dir \o <<"a",".","p","n","g">>, data |-> MagicPng],
     [name |-> dir \o <<"b",".","j","p","g">>, data |-> MagicJpeg \o <<0>>],
     [name |-> dir \o <<"n",".","b","i","n">>, data |-> <<0>>]}

InjectiveSeqsUpTo(S, n) ==
    {q \in SeqsUpTo(S, n) : \A i, j \in 1..Len(q) : q[i] = q[j] => i = j}

TextParagraph(style, text) ==
    [kind |-> "Paragraph",
     paragraph |-> [style |-> style,
                    content |-> <<[property |-> None,
                                   content |-> <<[kind |-> "Text", text |-> text]>>]>>]]

DrawingParagraph ==
    [kind |-> "Paragraph",
     paragraph |-> [style |-> None,
                    content |-> <<[property |-> None,
                                   content |-> <<[kind |-> "Drawing"]>>]>>]]

TableBlock == [kind |-> "Table", rows |-> << << <<<<"a">>>>, <<<<"b">>>> >>, << <<<<"1">>>>, <<<<"2">>, <<"3">>>> >> >>]

DocxBodies ==
    {<<>>,
     <<DrawingParagraph>>,
     <<TextParagraph(None, <<"A","b">>), TableBlock, DrawingParagraph>>,
     <<TextParagraph(Some(<<"H","e","a","d","i","n","g","2">>), <<"A","b">>), DrawingParagraph, DrawingParagraph>>}

St(name) == [type |-> "Start", name |-> name, embed |-> None, text |-> <<>>]

En(name) == [type |-> "End", name |-> name, embed |-> None, text |-> <<>>]

Tx(text) == [type |-> "Text", name |-> "", embed |-> None, text |-> text]

Blip(type, id) == [type |-> type, name |-> "a:blip", embed |-> Some(id), text |-> <<>>]

ReaderError == [type |-> "Err", name |-> "", embed |-> None, text |-> <<>>]

SlideWithBlip == <<St("p:pic"), Blip("Start", <<"r","I","d","2">>), En("a:blip"), En("p:pic")>>

SlideWithEmptyBlip == <<St("p:pic"), Blip("Empty", <<"r","I","d","2">>), En("p:pic")>>

SlideWithText ==
    <<St("p:txBody"), St("a:p"), St("a:t"), Tx(<<"H","i">>), En("a:t"), En("a:p"),
      St("a:p"), St("a:t"), Tx(<<"D","o","n","e",".">>), En("a:t"), En("a:p"), En("p:txBody")>>

SlideWithTable ==
    <<St("a:tbl"), St("a:tr"), St("a:tc"), Tx(<<"a">>), En("a:tc"), En("a:tr"),
      St("a:tr"), St("a:tc"), Tx(<<"1">>), En("a:tc"), En("a:tr"), En("a:tbl")>>

SlideMalformed == <<St("p:txBody"), St("a:p"), ReaderError>>

SlidePool == {SlideWithBlip, SlideWithEmptyBlip, SlideWithText, SlideWithTable, SlideMalformed}

SlideName(k) == <<"p","p","t","/","s","l","i","d","e","s","/","s","l","i","d","e">> \o ToDecimal(k) \o <<".","x","m","l">>

SlideEntriesOf(slides) == [k \in 1..Len(slides) |-> [name |-> SlideName(k), data |-> slides[k]]]

DocxArchives ==
    {[valid |-> FALSE, entries |-> <<>>, docOk |-> FALSE, body |-> <<>>]}
    \cup {[valid |-> TRUE, entries |-> e, docOk |-> FALSE, body |-> <<>>] :
             e \in {<<>>}}
    \cup {[valid |-> TRUE, entries |-> e, docOk |-> TRUE, body |-> b] :
             e \in InjectiveSeqsUpTo(MediaPool(<<"w","o","r","d","/","m","e","d","i","a","/">>), MaxMedia), b \in DocxBodies}

PptxArchives ==
    {[valid |-> FALSE, entries |-> <<>>, docOk |-> FALSE, body |-> <<>>]}
    \cup {[valid |-> TRUE, entries |-> e \o SlideEntriesOf(sl), docOk |-> TRUE, body |-> <<>>] :
             e \in InjectiveSeqsUpTo(MediaPool(<<"p","p","t","/","m","e","d","i","a","/">>), MaxMedia),
             sl \in SeqsUpTo(SlidePool, MaxSlides)}

NoPandoc == [available |-> FALSE, writeOk |-> TRUE, spawnOk |-> TRUE,
             exitOk |-> FALSE, readOk |-> TRUE]

\* the outcomes of the external binary: it never exits with success on bytes
\* that are no archive
PandocOutcomes(archive) ==
    {NoPandoc}
    \cup {[available |-> TRUE, writeOk |-> w, spawnOk |-> sp, exitOk |-> x, readOk |-> r] :
             w \in BOOLEAN, sp \in BOOLEAN, x \in {y \in BOOLEAN : y => archive.valid /\ archive.docOk},
             r \in BOOLEAN}

ContainerInputs ==
    {[format |-> "docx", archive |-> a, pandoc |-> p] :
         a \in DocxArchives, p \in UNION {PandocOutcomes(x) : x \in DocxArchives}}
    \cup {[format |-> "pptx", archive |-> a, pandoc |-> NoPandoc] : a \in PptxArchives}

MediaDir(format) == IF format = "docx" THEN <<"w","o","r","d","/","m","e","d","i","a","/">> ELSE <<"p","p","t","/","m","e","d","i","a","/">>

\* docx2md::run or pptx2md::run on the input
RunConverter(order) ==
    IF inp.format = "docx"
    THEN docx_run(inp.archive, order, SETTINGS, fs, CalmEnv(now), inp.pandoc)
    ELSE pptx_run_with_images(inp.archive, order, SETTINGS, fs, CalmEnv(now))

Orders == IterationOrders(Len(MediaEntries(inp.archive.entries, MediaDir(inp.format))))

InitContainer ==
    /\ pc = "ready"
    /\ inp \in {i \in ContainerInputs : i.pandoc \in PandocOutcomes(i.archive)}
    /\ out = None
    /\ SETTINGS \in {DefaultSettings, [DefaultSettings EXCEPT !.image_path = <<"i","m","g">>]}
    /\ fs = EmptyFs
    /\ now = 9

\* the first conversion; the media table iterates in some order
FirstRun ==
    /\ pc = "ready"
    /\ \E order \in Orders :
          \E r \in {RunConverter(order)} :
             /\ out' = [first |-> [res |-> r.res, t |-> now, fs |-> r.fs]]
             /\ fs' = r.fs
    /\ pc' = "once"
    /\ UNCHANGED <<inp, SETTINGS, now>>

\* the clock moves on between the two conversions
Tick ==
    /\ pc = "once"
    /\ now < 9 + MaxTicks
    /\ now' = now + 1
    /\ UNCHANGED <<pc, inp, out, SETTINGS, fs>>

\* the second conversion of the same input under the same configuration
SecondRun ==
    /\ pc = "once"
    /\ \E order \in Orders :
          \E r \in {RunConverter(order)} :
             /\ out' = [first |-> out.first,
                        second |-> [res |-> r.res, t |-> now, fs |-> r.fs]]
             /\ fs' = r.fs
    /\ pc' = "twice"
    /\ UNCHANGED <<inp, SETTINGS, now>>

NextContainer == FirstRun \/ Tick \/ SecondRun

SpecContainer == InitContainer /\ [][NextContainer]_vars

\* a result with the timestamp-derived image name of its run taken out
WithoutName(run) ==
    IF IsOk(run.res) THEN Ok(Replace(run.res.val, TimestampName(run.t), <<>>))
    ELSE run.res

\* the files a run saved, with the timestamp-derived name taken out of
\* their paths
SavedWithoutName(run) ==
    {<<Replace(q, TimestampName(run.t), <<>>), run.fs.files[q]>> : q \in DOMAIN run.fs.files}

\* C9 (as claimed): two conversions of the same input under the same
\* configuration with timestamp naming give the same Markdown, and save the
\* same bytes, up to the timestamp-derived image names.
C9_Deterministic ==
    pc = "twice" =>
        /\ WithoutName(out.first) = WithoutName(out.second)
        /\ SavedWithoutName(out.first) = SavedWithoutName(out.second)

ContainerErrors == {"Failed to open DOCX archive", "Failed to open PPTX archive"}

\* C10 (as claimed): bytes that are no archive, given to the word-processor
\* or the presentation converter, give an error of the archive-open stage
\* on every path through run.
C10_MalformedArchive ==
    (pc # "ready" /\ ~inp.archive.valid) =>
        /\ ~IsOk(out.first.res)
        /\ out.first.res.err \in ContainerErrors

(***************************************************************************)
(* Naming of images with the external naming call                          *)
(***************************************************************************)
\* the naming call of the conversion did not deliver a name: no API key, a
\* failed request or an unreadable response (an Err of the request), or a
\* response without choices[0].message.content
NamingFailed ==
    \/ ~IsSome(SETTINGS.doubao_api_key)
    \/ ~IsOk(inp.env.api)
    \/ ~IsSome(inp.env.api.val)

\* the directory and the file of the image can be written, or are not needed
StorageServes ==
    SETTINGS.image_path = <<>> \/ (inp.env.dirOk /\ inp.env.writeOk)

\* C11 (as claimed): with AI-assisted naming enabled the resolver returns Ok
\* for every outcome of the naming call, and when the call delivers no name
\* the image is named pic-<unix-seconds>.
C11_NamingNeverFails ==
    (pc = "done" /\ SETTINGS.is_ai_enpower /\ inp.bytes # <<>> /\ StorageServes) =>
        /\ IsOk(out.res)
        /\ NamingFailed =>
              StartsWith(out.md.val, <<"!","[">> \o TimestampName(inp.env.t) \o <<"]","(">>)

(***************************************************************************)
(* Slides of one presentation                                              *)
(***************************************************************************)
\* the slide entries of the input archive, in archive order
RECURSIVE SlidesIn(_)
SlidesIn(entries) ==
    IF entries = <<>> THEN <<>>
    ELSE IF IsSlideEntry(Head(entries)) THEN <<Head(entries).data>> \o SlidesIn(Tail(entries))
    ELSE SlidesIn(Tail(entries))

\* the conversion of one slide that refers to no image, taken alone
SlideAlone(events) ==
    parse_slide_content(events, 1, <<>>, <<>>, SETTINGS, EmptyFs, CalmEnv(now)).res

RefersToNoImage(events) == \A i \in 1..Len(events) : events[i].name # "a:blip"

\* C12 (as claimed): a presentation with a malformed slide still converts,
\* and its Markdown holds the content of every other slide.
C12_SlideFailureContained ==
    (pc # "ready" /\ inp.format = "pptx" /\ inp.archive.valid) =>
        LET slides == SlidesIn(inp.archive.entries)
        IN  (\E k, g \in 1..Len(slides) : ~IsOk(SlideAlone(slides[k])) /\ IsOk(SlideAlone(slides[g]))) =>
                /\ IsOk(out.first.res)
                /\ \A j \in 1..Len(slides) :
                      (RefersToNoImage(slides[j]) /\ IsOk(SlideAlone(slides[j]))) =>
                          Contains(out.first.res.val, SlideAlone(slides[j]).val)

\* the number of places at which pat occurs in s
Occurrences(s, pat) ==
    Cardinality({i \in 1..(Len(s) - Len(pat) + 1) : SubSeq(s, i, i + Len(pat) - 1) = pat})

\* the heading of slide j
SlideHeading(j) == <<"#","#"," ","S","l","i","d","e"," ">> \o ToDecimal(j) \o <<"\n", "\n">>

\* the content of a slide converted at second t when the media table
\* iterates in the given order
SlideContent(events, order, t) ==
    parse_slide_content(events, 1, <<>>,
                        Iterate(MediaEntries(inp.archive.entries, MediaDir("pptx")), order),
                        SETTINGS, EmptyFs, CalmEnv(t)).res.val

\* slides 1..k framed: heading, content, horizontal rule
FramedSlides(slides, order, t) ==
    Concat([j \in 1..Len(slides) |->
               SlideHeading(j) \o SlideContent(slides[j], order, t)
               \o <<"\n", "\n">> \o <<"-","-","-">> \o <<"\n", "\n">>])

\* C14: the Markdown of a converted presentation with k slide entries is the
\* title followed by the slides in archive order, slide j under the heading
\* "## Slide j" (each heading exactly once, j = 1..k whatever other entries
\* the archive enumerates), each followed by its content and a horizontal
\* rule.
C14_SlideFraming ==
    (pc # "ready" /\ inp.format = "pptx" /\ IsOk(out.first.res)) =>
        LET slides == SlidesIn(inp.archive.entries)
        IN  /\ \E order \in Orders :
                  out.first.res.val =
                      <<"#"," ","P","o","w","e","r","P","o","i","n","t"," ","P","r","e","s","e","n","t","a","t","i","o","n">> \o <<"\n", "\n">> \o FramedSlides(slides, order, out.first.t)
            /\ Occurrences(out.first.res.val, <<"#","#"," ","S","l","i","d","e"," ">>) = Len(slides)
            /\ \A j \in 1..Len(slides) : Occurrences(out.first.res.val, SlideHeading(j)) = 1

\* a converted presentation of two slides whose archive enumerates a media
\* entry before them
C14_Witness ==
    /\ pc # "ready" /\ inp.format = "pptx" /\ IsOk(out.first.res)
    /\ Len(SlidesIn(inp.archive.entries)) = 2
    /\ ~IsSlideEntry(inp.archive.entries[1])
    /\ SlidesIn(inp.archive.entries)[1] # SlidesIn(inp.archive.entries)[2]

(***************************************************************************)
(* CSV path: generator/csv2md.rs                                           *)
(*                                                                         *)
(* The bytes are text of one-byte characters.  The csv reader is the       *)
(* default ReaderBuilder with has_headers(true): comma delimiter, double   *)
(* quote fields with "" as the escaped quote, records ended by \n or \r,   *)
(* empty lines skipped, and every record of the length of the first one.   *)
(***************************************************************************)
\* the reader after one more character; st is [recs, rec, field, mode], mode
\* "start" at the start of a field, "unq" inside an unquoted field, "q"
\* inside a quoted field, "qq" after a quote read inside a quoted field
CsvStep(st, c) ==
    IF st.mode = "q"
    THEN IF c = "\"" THEN [st EXCEPT !.mode = "qq"]
         ELSE [st EXCEPT !.field = Append(st.field, c)]
    ELSE IF st.mode = "qq" /\ c = "\""
    THEN [st EXCEPT !.field = Append(st.field, c), !.mode = "q"]
    ELSE IF st.mode = "start" /\ c = "\""
    THEN [st EXCEPT !.mode = "q"]
    ELSE IF c = ","
    THEN [st EXCEPT !.rec = Append(st.rec, st.field), !.field = <<>>, !.mode = "start"]
    ELSE IF c \in {"\n", "\r"}
    THEN IF st.rec = <<>> /\ st.field = <<>> /\ st.mode = "start"
         THEN st
         ELSE [recs |-> Append(st.recs, Append(st.rec, st.field)),
               rec |-> <<>>, field |-> <<>>, mode |-> "start"]
    ELSE [st EXCEPT !.field = Append(st.field, c), !.mode = "unq"]

RECURSIVE CsvFold(_, _)
CsvFold(text, st) ==
    IF text = <<>> THEN st
    ELSE Bind(CsvStep(st, Head(text)), LAMBDA s2 : CsvFold(Tail(text), s2))

\* the records of a CSV text, the header record first
CsvRead(text) ==
    CsvStep(CsvFold(text, [recs |-> <<>>, rec |-> <<>>, field |-> <<>>, mode |-> "start"]),
            "\n").recs

\* .collect::<Vec<&str>>().join(sep)
RECURSIVE Join(_, _)
Join(parts, sep) ==
    IF parts = <<>> THEN <<>>
    ELSE IF Len(parts) = 1 THEN parts[1]
    ELSE parts[1] \o sep \o Join(Tail(parts), sep)

\* one line of csv2md: "| ", the cells joined by " | ", " |\n"
CsvLine(cells) == <<"|", " ">> \o Join(cells, <<" ", "|", " ">>) \o <<" ", "|", "\n">>

TrimAll(record) == [i \in 1..Len(record) |-> Trim(record[i])]

\* the loop over rdr.records(): a record of another length than the first
\* is the reader's UnequalLengths error
RECURSIVE CsvRecords(_, _, _)
CsvRecords(records, width, markdown) ==
    IF records = <<>> THEN Ok(markdown)
    ELSE IF Len(Head(records)) # width THEN Err("CSV parsing error")
    ELSE CsvRecords(Tail(records), width, markdown \o CsvLine(TrimAll(Head(records))))

\* csv2md::run
csv2md_run(bytes) ==
    LET recs == CsvRead(bytes)
        headers == IF recs = <<>> THEN <<>> ELSE recs[1]
        head == CsvLine(TrimAll(headers))
                \o CsvLine([i \in 1..Len(headers) |-> <<"-", "-", "-">>])
    IN  CsvRecords(IF recs = <<>> THEN <<>> ELSE Tail(recs), Len(headers), head)

MaxCsvLen == 4

CsvAlphabet == {"a", " ", ",", "\n", "\""}

CsvTexts == SeqsUpTo(CsvAlphabet, MaxCsvLen) \cup {<<"a",",","b">> \o <<"\n">> \o <<"1",",","2">> \o <<"\n">>}

InitCsv ==
    /\ pc = "ready"
    /\ inp \in CsvTexts
    /\ out = None
    /\ SETTINGS = DefaultSettings
    /\ fs = EmptyFs
    /\ now = 9

\* csv2md::run on the input
CsvRun ==
    /\ pc = "ready"
    /\ out' = csv2md_run(inp)
    /\ pc' = "done"
    /\ UNCHANGED <<inp, SETTINGS, fs, now>>

NextCsv == CsvRun

SpecCsv == InitCsv /\ [][NextCsv]_vars

\* the rows of a CSV input, cells trimmed
CsvRows(text) == [k \in 1..Len(CsvRead(text)) |-> TrimAll(CsvRead(text)[k])]

Rectangular(rows) == \A k \in 1..Len(rows) : Len(rows[k]) = Len(rows[1])

\* C15 (as claimed): for a CSV input with rows R, csv2md::run returns what
\* format_table_as_markdown returns for R.
C15_CsvIsTableSynthesizer ==
    (pc = "done" /\ Rectangular(CsvRows(inp))) =>
        out = Ok(format_table_as_markdown(CsvRows(inp)))

(***************************************************************************)
(* Spreadsheet path: converter/xlsx2csv.rs and the xlsx arm of convert     *)
(*                                                                         *)
(* A workbook is [valid, sheets]: whether the bytes open as a spreadsheet  *)
(* document, and its worksheets [name, rows] in workbook order, the rows   *)
(* of a worksheet being the cell texts of its dimension.                   *)
(***************************************************************************)
\* the csv writer quotes a field that holds the delimiter, a quote or a line
\* end, doubling its quotes
RECURSIVE DoubleQuotes(_)
DoubleQuotes(f) ==
    IF f = <<>> THEN <<>>
    ELSE (IF Head(f) = "\"" THEN <<"\"", "\"">> ELSE <<Head(f)>>) \o DoubleQuotes(Tail(f))

CsvField(f) ==
    IF \E i \in 1..Len(f) : f[i] \in {",", "\"", "\n", "\r"}
    THEN <<"\"">> \o DoubleQuotes(f) \o <<"\"">>
    ELSE f

\* writer.write_record: a record of one empty field is written as ""
CsvRecord(cols) ==
    (IF cols = <<<<>>>> THEN <<"\"", "\"">>
     ELSE Join([i \in 1..Len(cols) |-> CsvField(cols[i])], <<",">>)) \o <<"\n">>

\* worksheet_to_csv_string with use_header false: every row as it is; the
\* writer refuses a record of another length than the first
RECURSIVE WriteRows(_, _, _)
WriteRows(rows, width, output) ==
    IF rows = <<>> THEN Ok(output)
    ELSE IF Len(Head(rows)) # width THEN Err("Failed to write row")
    ELSE WriteRows(Tail(rows), width, output \o CsvRecord(Head(rows)))

\* workbook.get_worksheet_by_name
get_worksheet_by_name(sheets, sheet_name) ==
    LET hits == {k \in 1..Len(sheets) : sheets[k].name = sheet_name}
    IN  IF hits = {} THEN None
        ELSE Some(sheets[CHOOSE k \in hits : \A j \in hits : k <= j])

worksheet_to_csv_string(sheets, sheet_name) ==
    LET worksheet == get_worksheet_by_name(sheets, sheet_name)
    IN  IF ~IsSome(worksheet) THEN Err("Sheet not found")
        ELSE WriteRows(worksheet.val.rows,
                       IF worksheet.val.rows = <<>> THEN 0 ELSE Len(worksheet.val.rows[1]),
                       <<>>)

\* std::process::id()
ProcessId == 7

\* temp_dir.join(format!("temp_xlsx_{}.xlsx", std::process::id()))
TempXlsx == <<"/","t","m","p","/","t","e","m","p","_","x","l","s","x","_">> \o ToDecimal(ProcessId) \o <<".","x","l","s","x">>

\* the loop of xlsx_to_csv over the sheet names
RECURSIVE SheetsToCsv(_, _, _)
SheetsToCsv(sheets, names, csv_data) ==
    IF names = <<>> THEN Ok(csv_data)
    ELSE Bind(worksheet_to_csv_string(sheets, Head(names)),
              LAMBDA r : IF ~IsOk(r) THEN Err("Failed to convert sheet")
                         ELSE SheetsToCsv(sheets, Tail(names), Append(csv_data, r.val)))

\* xlsx_to_csv: [res, fs], res Ok([sheet_names, csv_data])
xlsx_to_csv(data, fsys) ==
    IF ~data.valid
    THEN [res |-> Err("Failed to open xlsx"), fs |-> WriteFile(fsys, TempXlsx, data)]
    ELSE LET sheet_names == [k \in 1..Len(data.sheets) |-> data.sheets[k].name]
         IN  IF sheet_names = <<>>
             THEN [res |-> Err("No sheets found in xlsx file"), fs |-> RemoveFile(fsys, TempXlsx)]
             ELSE Bind(SheetsToCsv(data.sheets, sheet_names, <<>>),
                       LAMBDA r :
                          IF ~IsOk(r) THEN [res |-> r, fs |-> WriteFile(fsys, TempXlsx, data)]
                          ELSE [res |-> Ok([sheet_names |-> sheet_names, csv_data |-> r.val]),
                                fs |-> RemoveFile(fsys, TempXlsx)])

\* an arm that puts the horizontal rule after every sheet
RECURSIVE CombineSheets_RuleAfterEach(_, _, _)
CombineSheets_RuleAfterEach(names, csvs, combined_md) ==
    IF names = <<>> \/ csvs = <<>> THEN Ok(combined_md)
    ELSE Bind(csv2md_run(Head(csvs)),
              LAMBDA md :
                 IF ~IsOk(md) THEN Err("Failed to convert CSV for sheet")
                 ELSE CombineSheets_RuleAfterEach(Tail(names), Tail(csvs),
                                    combined_md
                                    \o <<"#","#"," ","S","h","e","e","t",":"," ">> \o Head(names) \o <<"\n", "\n">>
                                    \o md.val
                                    \o <<"\n", "\n">> \o <<"-","-","-">> \o <<"\n", "\n">>))

\* the loop of the xlsx arm over sheet_names zipped with csv_data
RECURSIVE CombineSheets(_, _, _)
CombineSheets(names, csvs, combined_md) ==
    IF names = <<>> \/ csvs = <<>> THEN Ok(combined_md)
    ELSE Bind(csv2md_run(Head(csvs)),
              LAMBDA md :
                 IF ~IsOk(md) THEN Err("Failed to convert CSV for sheet")
                 ELSE CombineSheets(Tail(names), Tail(csvs),
                                    combined_md
                                    \o (IF combined_md # <<>>
                                        THEN <<"\n", "\n">> \o <<"-","-","-">> \o <<"\n", "\n">>
                                        ELSE <<>>)
                                    \o <<"#","#"," ","S","h","e","e","t",":"," ">> \o Head(names) \o <<"\n", "\n">>
                                    \o md.val))

\* the xlsx arm of convert: [res, fs]
convert_xlsx(data, fsys) ==
    Bind(xlsx_to_csv(data, fsys),
         LAMBDA csvs :
            IF ~IsOk(csvs.res)
            THEN [res |-> Err("Failed to convert XLSX: "), fs |-> csvs.fs]
            ELSE Bind(CombineSheets(csvs.res.val.sheet_names, csvs.res.val.csv_data, <<>>),
                      LAMBDA r :
                         [res |-> IF ~IsOk(r) THEN r
                                  ELSE IF r.val = <<>> THEN Err("No sheets found in XLSX file")
                                  ELSE r,
                          fs |-> csvs.fs]))

MaxSheets == 2

SheetNames == {<<"S","1">>, <<"D","a","t","a">>, <<"Q"," ","3">>}

\* worksheets by their rows: no row, one cell, an empty cell, cells the
\* writer has to quote, cells with blanks around them
SheetRows ==
    {<<>>,
     << <<<<"a">>>> >>,
     << <<<<>>>> >>,
     << <<<<>>>>, <<<<"1">>>> >>,
     << <<<<"a">>, <<"b">>>>, <<<<"1">>, <<"2">>>>, <<<<"3">>, <<"4">>>> >>,
     << <<<<"x",",","y">>, <<"s","a","y"," ","\"","h","i","\"">>>>, <<<<" ","p"," ">>, <<>>>> >>,
     << <<<<>>, <<>>>>, <<<<"1">> \o <<"\n">> \o <<"2">>, <<"\"">>>> >>}

Workbooks ==
    {[valid |-> FALSE, sheets |-> <<>>]}
    \cup {[valid |-> TRUE, sheets |-> sh] :
             sh \in {q \in SeqsUpTo([name : SheetNames, rows : SheetRows], MaxSheets) :
                        \A i, j \in 1..Len(q) : q[i].name = q[j].name => i = j}}

InitSheets ==
    /\ pc = "ready"
    /\ inp \in Workbooks
    /\ out = None
    /\ SETTINGS = DefaultSettings
    /\ fs = EmptyFs
    /\ now = 9

\* convert on a spreadsheet
ConvertSheets ==
    /\ pc = "ready"
    /\ \E r \in {convert_xlsx(inp, fs)} :
          /\ out' = r.res
          /\ fs' = r.fs
    /\ pc' = "done"
    /\ UNCHANGED <<inp, SETTINGS, now>>

NextSheets == ConvertSheets

SpecSheets == InitSheets /\ [][NextSheets]_vars

\* the table of a worksheet: its first row as header, the separator row,
\* its other rows, cells trimmed
SheetTable(rows) ==
    LET header == IF rows = <<>> THEN <<>> ELSE rows[1]
    IN  CsvLine(TrimAll(header))
        \o CsvLine([i \in 1..Len(header) |-> <<"-", "-", "-">>])
        \o Concat([k \in 1..(Len(rows) - 1) |-> CsvLine(TrimAll(rows[k + 1]))])

\* the section of a worksheet: the sheet-name header and the table
SheetSection(sheet) ==
    <<"#","#"," ","S","h","e","e","t",":"," ">> \o sheet.name \o <<"\n", "\n">> \o SheetTable(sheet.rows)

\* C16: a spreadsheet with sheets s1..sk, k >= 1, converts to the sections
\* of s1..sk in workbook order, each the header "## Sheet: <name>" and the
\* table of that same sheet, joined by one horizontal rule between
\* consecutive sections and none elsewhere.
C16_SheetSections ==
    (pc = "done" /\ inp.valid /\ Len(inp.sheets) >= 1) =>
        out = Ok(Join([k \in 1..Len(inp.sheets) |-> SheetSection(inp.sheets[k])],
                      <<"\n", "\n">> \o <<"-","-","-">> \o <<"\n", "\n">>))

\* a converted spreadsheet of two different sheets, one with cells the csv
\* writer quotes
C16_Witness ==
    /\ pc = "done" /\ inp.valid /\ Len(inp.sheets) = 2 /\ IsOk(out)
    /\ inp.sheets[1].rows # inp.sheets[2].rows
    /\ \E k \in 1..2 : Len(inp.sheets[k].rows) = 2 /\ inp.sheets[k].rows[1][1] = <<"x",",","y">>

(***************************************************************************)
(* Conversions on two threads of one process                               *)
(*                                                                         *)
(* Each thread converts its own input, a word-processor document through   *)
(* run_with_pandoc or a spreadsheet through the xlsx arm of convert.  The  *)
(* file system is shared; a step is one file-system call of the code (the  *)
(* run of the external binary counted as one).  pc, inp and out are        *)
(* functions of the thread; out[t] holds what the thread has read so far   *)
(* (loaded) and its result (res).                                          *)
(***************************************************************************)
MaxThreads == 2

Threads == 1..MaxThreads

DocxJobs ==
    {[format |-> "docx", data |-> a] :
        a \in {[valid |-> FALSE, entries |-> <<>>, docOk |-> FALSE, body |-> <<>>],
               [valid |-> TRUE, entries |-> <<>>, docOk |-> TRUE, body |-> <<>>],
               [valid |-> TRUE, entries |-> <<>>, docOk |-> TRUE,
                body |-> <<TextParagraph(None, <<"A","b">>)>>]}}

XlsxJobs ==
    {[format |-> "xlsx", data |-> w] :
        w \in {[valid |-> FALSE, sheets |-> <<>>],
               [valid |-> TRUE, sheets |-> <<[name |-> <<"S","1">>, rows |-> << <<<<"a">>>> >>]>>],
               [valid |-> TRUE, sheets |-> <<[name |-> <<"D","a","t","a">>, rows |-> << <<<<"1">>>> >>]>>]}}

Jobs == DocxJobs \cup XlsxJobs

InitThreads ==
    /\ pc = [t \in Threads |-> "start"]
    /\ inp \in [Threads -> Jobs]
    /\ out = [t \in Threads |-> [loaded |-> None, res |-> None]]
    /\ SETTINGS = DefaultSettings
    /\ fs = EmptyFs
    /\ now = 9

\* std::fs::write(&input_path, file_stream) of run_with_pandoc
DocxWrite ==
    \E t \in Threads :
        /\ pc[t] = "start" /\ inp[t].format = "docx"
        /\ fs' = WriteFile(fs, TempInput, inp[t].data)
        /\ pc' = [pc EXCEPT ![t] = "written"]
        /\ UNCHANGED <<inp, out, SETTINGS, now>>

\* cmd.output(): pandoc converts the file at input_path into output_path, or
\* exits with a failure when that file is missing or no document
DocxPandoc ==
    \E t \in Threads :
        /\ pc[t] = "written" /\ inp[t].format = "docx"
        /\ IF TempInput \in DOMAIN fs.files
              /\ fs.files[TempInput].valid /\ fs.files[TempInput].docOk
           THEN /\ fs' = WriteFile(fs, TempOutput, PandocMarkdown(fs.files[TempInput]))
                /\ pc' = [pc EXCEPT ![t] = "converted"]
                /\ out' = out
           ELSE /\ out' = [out EXCEPT ![t].res = Some(Err("Pandoc execution failed"))]
                /\ pc' = [pc EXCEPT ![t] = "done"]
                /\ fs' = fs
        /\ UNCHANGED <<inp, SETTINGS, now>>

\* std::fs::read_to_string(&output_path)
DocxRead ==
    \E t \in Threads :
        /\ pc[t] = "converted"
        /\ IF TempOutput \in DOMAIN fs.files
           THEN /\ out' = [out EXCEPT ![t].loaded = Some(fs.files[TempOutput])]
                /\ pc' = [pc EXCEPT ![t] = "read"]
           ELSE /\ out' = [out EXCEPT ![t].res = Some(Err("Failed to read pandoc output"))]
                /\ pc' = [pc EXCEPT ![t] = "done"]
        /\ UNCHANGED <<inp, SETTINGS, fs, now>>

\* remove_file of both temporary files, then the Markdown is returned
DocxCleanup ==
    \E t \in Threads :
        /\ pc[t] = "read"
        /\ fs' = RemoveFile(RemoveFile(fs, TempInput), TempOutput)
        /\ out' = [out EXCEPT ![t].res = Some(Ok(out[t].loaded.val))]
        /\ pc' = [pc EXCEPT ![t] = "done"]
        /\ UNCHANGED <<inp, SETTINGS, now>>

\* std::fs::write(&temp_file, data) of xlsx_to_csv
XlsxWrite ==
    \E t \in Threads :
        /\ pc[t] = "start" /\ inp[t].format = "xlsx"
        /\ fs' = WriteFile(fs, TempXlsx, inp[t].data)
        /\ pc' = [pc EXCEPT ![t] = "written"]
        /\ UNCHANGED <<inp, out, SETTINGS, now>>

\* SpreadsheetDocument::open(&temp_file)
XlsxOpen ==
    \E t \in Threads :
        /\ pc[t] = "written" /\ inp[t].format = "xlsx"
        /\ IF TempXlsx \in DOMAIN fs.files /\ fs.files[TempXlsx].valid
           THEN /\ out' = [out EXCEPT ![t].loaded = Some(fs.files[TempXlsx])]
                /\ pc' = [pc EXCEPT ![t] = "opened"]
           ELSE /\ out' = [out EXCEPT ![t].res = Some(Err("Failed to convert XLSX: "))]
                /\ pc' = [pc EXCEPT ![t] = "done"]
        /\ UNCHANGED <<inp, SETTINGS, fs, now>>

\* the sheets of the opened document are converted, the temporary file is
\* removed (not when a sheet fails), and the xlsx arm combines the sheets
XlsxFinish ==
    \E t \in Threads :
        /\ pc[t] = "opened"
        /\ \E r \in {convert_xlsx(out[t].loaded.val, fs)} :
              /\ out' = [out EXCEPT ![t].res = Some(r.res)]
              /\ fs' = IF TempXlsx \in DOMAIN r.fs.files THEN fs ELSE r.fs
        /\ pc' = [pc EXCEPT ![t] = "done"]
        /\ UNCHANGED <<inp, SETTINGS, now>>

NextThreads ==
    \/ DocxWrite \/ DocxPandoc \/ DocxRead \/ DocxCleanup
    \/ XlsxWrite \/ XlsxOpen \/ XlsxFinish

SpecThreads == InitThreads /\ [][NextThreads]_vars

\* the result of a conversion run alone, the external binary at hand
Alone(job) ==
    IF job.format = "xlsx" THEN convert_xlsx(job.data, EmptyFs).res
    ELSE run_with_pandoc(job.data, DefaultSettings, EmptyFs,
                         [available |-> TRUE, writeOk |-> TRUE, spawnOk |-> TRUE,
                          exitOk |-> job.data.valid /\ job.data.docOk, readOk |-> TRUE]).res

\* C13 (as claimed): a conversion that runs beside another one returns what
\* it returns when run alone.
C13_Independent ==
    \A t \in Threads : pc[t] = "done" => out[t].res = Some(Alone(inp[t]))

(***************************************************************************)
(* The heading rules, signal by signal                                     *)
(***************************************************************************)
\* the style signal as the claim states it: None, or Some(<<TRUE, level>>)
ClaimedStyleSignal(style_name) ==
    LET lower == ToLowercase(style_name)
        digits == ParseUsize(FilterDigits(style_name))
    IN  IF Contains(lower, sSubtitle) THEN Some(<<TRUE, 2>>)
        ELSE IF lower = sTitle THEN Some(<<TRUE, 1>>)
        ELSE IF Contains(lower, sHeading) \/ Contains(lower, sTitle)
        THEN Some(<<TRUE, UnwrapOr(digits, 1)>>)
        ELSE IF Contains(lower, sHeader) THEN Some(<<TRUE, UnwrapOr(digits, 3)>>)
        ELSE None

\* C17 (as claimed): a style id that contains "heading", "title", "subtitle"
\* or "header" anywhere, in any letter case, gives the style signal heading
\* at the level of its digits (1 without a digit, 2 for a subtitle, 3 for a
\* header without a digit); any other style gives none.
C17_StyleRule ==
    (pc = "done" /\ IsSome(inp.style)) =>
        out.style_signal =
            (IF IsSome(ClaimedStyleSignal(inp.style.val))
             THEN ClaimedStyleSignal(inp.style.val).val
             ELSE <<FALSE, 1>>)

\* C20: a paragraph whose text is empty after trimming is returned as it
\* is, never as a heading line: its result holds no '#', whatever its style,
\* font size and boldness, and the document loop adds nothing for it.
C20_EmptyNeverHeading ==
    (pc = "done" /\ Trim(out.text_content) = <<>>) =>
        /\ ~out.rendered_heading
        /\ out.res = Ok(out.text_content)
        /\ \A i \in 1..Len(out.res.val) : out.res.val[i] # "#"
        /\ Trim(out.res.val) = <<>>

\* a paragraph of blank text that is classified as a heading, by its style
\* or by its font size
C20_Witness ==
    /\ pc = "done"
    /\ out.text_content # <<>>
    /\ Trim(out.text_content) = <<>>
    /\ out.final_is_heading
    /\ ~out.rendered_heading

(***************************************************************************)
(* Paragraphs without a heading style: the font-size and bold signals      *)
(***************************************************************************)
\* lengths around the limits 30, 50, 80 and 100 of determine_heading_status
HeadingLengths == {1, 29, 30, 49, 50, 79, 80, 99, 100}

\* sizes in half-points around the thresholds of 12, 13, 14, 16 and 18 points
HalfPoints == {22, 23, 24, 25, 26, 27, 28, 31, 32, 35, 36, 37}

\* texts of Latin letters, bare or ending in '.', '!' or '?'; of CJK letters
\* (three bytes each); without letters; with a line break; blank
HeadingTexts ==
    {Rep("a", n) : n \in HeadingLengths}
    \cup {Rep("a", n - 1) \o <<e>> : n \in HeadingLengths, e \in {".", "!", "?"}}
    \cup {Rep(Han, n) : n \in {9, 10, 16, 17, 26, 27, 33, 34}}
    \cup {<<"1", "2">>, <<"a", "\n", "b">>, <<" ", "a", " ">>, <<" ">>, <<>>}

HeadingProps ==
    {None}
    \cup {Some([bold |-> b, size |-> s]) :
            b \in {None, Some(TRUE), Some(FALSE)},
            s \in {None} \cup {Some(hp) : hp \in HalfPoints}}

PlainStyles == {None, Some(<<"N","o","r","m","a","l">>)}

HeadingRun(p, t) == [property |-> p, content |-> <<[kind |-> "Text", text |-> t]>>]

\* paragraphs of one run, and of a head run followed by a plain or bold tail
HeadingParagraphs ==
    {[style |-> s, content |-> <<HeadingRun(p, t)>>] :
        s \in PlainStyles, p \in HeadingProps, t \in HeadingTexts}
    \cup {[style |-> None, content |-> <<HeadingRun(p, <<"A", "b">>), HeadingRun(q, t)>>] :
            p \in {None, Some([bold |-> Some(TRUE), size |-> None]),
                   Some([bold |-> None, size |-> Some(36)])},
            q \in {None, Some([bold |-> Some(TRUE), size |-> None])},
            t \in {<<" ", "c">>, <<"c", ".">>}}

InitHeading ==
    /\ pc = "ready"
    /\ inp \in HeadingParagraphs
    /\ out = None
    /\ SETTINGS = DefaultSettings
    /\ fs = EmptyFs
    /\ now = 1

SpecHeading == InitHeading /\ [][NextParagraph]_vars

\* C18 (as claimed): without a heading style and with a run size, the size
\* gives level 1 from 18pt, 2 from 16pt, 3 from 14pt, 4 from 13pt, 5 from
\* 12pt; the paragraph is a heading of that level when its trimmed text has
\* fewer than 100 characters and does not end in a period, and is not one by
\* this signal otherwise or when the size is below 12pt.
C18_FontSizeRule ==
    (pc = "done" /\ ~out.style_signal[1] /\ IsSome(out.font_size)) =>
        LET level == SizeLevelInPoints(out.font_size.val)
            trimmed == Trim(out.text_content)
            short == Len(trimmed) < 100 /\ ~EndsWith(trimmed, <<".">>)
        IN  /\ (level # 0 /\ short) =>
                  (out.final_is_heading /\ out.final_level = level)
            /\ (level = 0 \/ ~short) =>
                  (out.final_is_heading => out.has_bold)

\* some run of the paragraph is bold
SomeRunBold(paragraph) ==
    \E i \in 1..Len(paragraph.content) :
        /\ IsSome(paragraph.content[i].property)
        /\ paragraph.content[i].property.val.bold = Some(TRUE)

\* C19 (as claimed): without a heading style and without a font size, the
\* paragraph is a heading exactly when some run is bold and the trimmed text
\* has between 1 and 79 characters, ends in none of '.', '!', '?', holds no
\* line break and holds a letter; its level is 2 below 30 characters, 3 below
\* 50 and 4 otherwise.
C19_BoldRule ==
    (pc = "done" /\ ~out.style_signal[1] /\ ~IsSome(out.font_size)) =>
        LET trimmed == Trim(out.text_content)
            n == Len(trimmed)
            heading == /\ SomeRunBold(inp)
                       /\ 0 < n /\ n < 80
                       /\ ~EndsWith(trimmed, <<".">>)
                       /\ ~EndsWith(trimmed, <<"!">>)
                       /\ ~EndsWith(trimmed, <<"?">>)
                       /\ ~Contains(trimmed, <<"\n">>)
                       /\ \E i \in 1..n : IsAlphabetic(trimmed[i])
        IN  /\ out.final_is_heading = heading
            /\ heading =>
                  out.final_level = (IF n < 30 THEN 2 ELSE IF n < 50 THEN 3 ELSE 4)

(***************************************************************************)
(* The accumulation over the runs of a paragraph                           *)
(***************************************************************************)
RECURSIVE ConcatRunTexts(_)
ConcatRunTexts(runs) ==
    IF runs = <<>> THEN <<>>
    ELSE ConcatRunTexts(SubSeq(runs, 1, Len(runs) - 1))
         \o runs[Len(runs)].content[1].text

\* the runs of the paragraph that give an explicit size
SizedRuns(runs) ==
    {i \in 1..Len(runs) : IsSome(runs[i].property) /\ IsSome(runs[i].property.val.size)}

LastSize(runs) ==
    IF SizedRuns(runs) = {} THEN None
    ELSE runs[CHOOSE i \in SizedRuns(runs) : \A j \in SizedRuns(runs) : j <= i].property.val.size

\* C21 (as claimed): the text of a paragraph is the concatenation of its run
\* texts in order, the bold flag is true exactly when some run is bold, and
\* the font size is the explicit size of the last run that gives one, absent
\* when no run gives one.
C21_RunAccumulation ==
    pc = "done" =>
        /\ out.text_content = ConcatRunTexts(inp.content)
        /\ out.has_bold = SomeRunBold(inp)
        /\ out.font_size = LastSize(inp.content)

(***************************************************************************)
(* The body of a document in the built-in path: run_with_images            *)
(***************************************************************************)
MaxBlocks == 3

\* a table without rows, and a block that is neither paragraph nor table
EmptyTableBlock == [kind |-> "Table", rows |-> <<>>]

OtherBlock == [kind |-> "Sdt"]

BlockPool ==
    {TextParagraph(None, <<"A","b">>),
     TextParagraph(None, <<" ">>),
     TextParagraph(Some(<<"H","e","a","d","i","n","g","2">>), <<"C","d">>),
     DrawingParagraph,
     TableBlock,
     EmptyTableBlock,
     OtherBlock}

InitBody ==
    /\ pc = "ready"
    /\ inp \in {[valid |-> TRUE, entries |-> <<>>, docOk |-> TRUE, body |-> b] :
                   b \in SeqsUpTo(BlockPool, MaxBlocks)}
    /\ out = None
    /\ SETTINGS = DefaultSettings
    /\ fs = EmptyFs
    /\ now = 1

\* one call of run_with_images on a document without media
ConvertBody ==
    /\ pc = "ready"
    /\ \E r \in {docx_run_with_images(inp, <<>>, SETTINGS, fs, CalmEnv(now))} :
          /\ out' = r.res
          /\ fs' = r.fs
    /\ pc' = "done"
    /\ UNCHANGED <<inp, SETTINGS, now>>

NextBody == ConvertBody

SpecBody == InitBody /\ [][NextBody]_vars

\* the rendering of one block taken alone; a block of another kind has none
BlockAlone(b) ==
    IF b.kind = "Paragraph"
    THEN process_paragraph(b.paragraph, <<>>, DefaultSettings, EmptyFs, CalmEnv(1)).res.val
    ELSE IF b.kind = "Table" THEN process_table(b.rows)
    ELSE <<>>

\* the non-blank renderings of the blocks in document order, a blank line
\* after each
RECURSIVE JoinBlocks(_)
JoinBlocks(blocks) ==
    IF blocks = <<>> THEN <<>>
    ELSE LET r == BlockAlone(Head(blocks))
         IN  (IF Trim(r) = <<>> THEN <<>> ELSE r \o <<"\n", "\n">>)
             \o JoinBlocks(Tail(blocks))

DocumentTitle == <<"#"," ","D","o","c","u","m","e","n","t","\n","\n">>

\* C22: in the built-in path the output after the document title is the
\* sequence of the non-blank renderings of the paragraphs and tables of the
\* body in document order, each followed by a blank line; a block whose
\* rendering is blank adds nothing.
C22_DocumentOrder ==
    pc = "done" => out = Ok(DocumentTitle \o JoinBlocks(inp.body))

\* a body where a table stands between two paragraphs, one of them blank
C22_Witness ==
    /\ pc = "done"
    /\ Len(inp.body) = MaxBlocks
    /\ inp.body[1] = TextParagraph(None, <<" ">>)
    /\ inp.body[2] = TableBlock
    /\ inp.body[3].kind = "Paragraph"
    /\ Trim(BlockAlone(inp.body[3])) # <<>>
    /\ IsOk(out)

(***************************************************************************)
(* The text body of a slide: parse_slide_content and extract_text_body     *)
(***************************************************************************)
MaxParas == 3

\* the paragraphs of a text body, each the sequence of its run texts: short
\* and long lines, lines ending in '.', '!' or '?', a line with a break,
\* blank runs, CJK letters (three bytes each), and lines of two runs
SlideParagraphs ==
    {<<>>,
     <<<<"H","i">>>>, <<<<"D","o","n","e",".">>>>, <<<<"G","o","!">>>>, <<<<"S","o","?">>>>,
     <<<<" ">>>>, <<<<"a","\n","b">>>>,
     <<Rep("a", 99)>>, <<Rep("a", 100)>>, <<Rep(Han, 33)>>, <<Rep(Han, 34)>>,
     <<<<"H","i">>, <<" ">>>>, <<<<" ">>, <<"H","i">>>>, <<<<"H","i">>, <<"D","o","n","e",".">>>>,
     <<Rep("a", 99), <<"a">>>>}

RECURSIVE RunEvents(_)
RunEvents(runs) ==
    IF runs = <<>> THEN <<>>
    ELSE <<St("a:r"), St("a:t")>>
         \o (IF Head(runs) = <<>> THEN <<>> ELSE <<Tx(Head(runs))>>)
         \o <<En("a:t"), En("a:r")>> \o RunEvents(Tail(runs))

RECURSIVE ParagraphEvents(_)
ParagraphEvents(paras) ==
    IF paras = <<>> THEN <<>>
    ELSE <<St("a:p")>> \o RunEvents(Head(paras)) \o <<En("a:p")>>
         \o ParagraphEvents(Tail(paras))

\* the events of a slide that holds one text body with the paragraphs
TextBodySlide(paras) ==
    <<St("p:sld"), St("p:txBody")>> \o ParagraphEvents(paras)
    \o <<En("p:txBody"), En("p:sld")>>

InitSlideText ==
    /\ pc = "ready"
    /\ inp \in SeqsUpTo(SlideParagraphs, MaxParas)
    /\ out = None
    /\ SETTINGS = DefaultSettings
    /\ fs = EmptyFs
    /\ now = 1

\* one call of parse_slide_content on the slide of the text body
ParseSlideText ==
    /\ pc = "ready"
    /\ \E r \in {parse_slide_content(TextBodySlide(inp), 1, <<>>, <<>>, SETTINGS, fs,
                                     CalmEnv(now))} :
          /\ out' = r.res
          /\ fs' = r.fs
    /\ pc' = "done"
    /\ UNCHANGED <<inp, SETTINGS, now>>

NextSlideText == ParseSlideText

SpecSlideText == InitSlideText /\ [][NextSlideText]_vars

RECURSIVE ConcatTexts(_)
ConcatTexts(texts) ==
    IF texts = <<>> THEN <<>> ELSE Head(texts) \o ConcatTexts(Tail(texts))

\* the line the claim gives a paragraph, from the text of its own runs
ClaimedLine(runs) ==
    LET trimmed == Trim(ConcatTexts(runs))
        title == /\ Len(trimmed) < 100
                 /\ ~EndsWith(trimmed, <<".">>)
                 /\ ~EndsWith(trimmed, <<"!">>)
                 /\ ~EndsWith(trimmed, <<"?">>)
                 /\ ~Contains(trimmed, <<"\n">>)
    IN  IF trimmed = <<>> THEN <<>>
        ELSE (IF title THEN <<"#","#","#"," ">> ELSE <<"-"," ">>) \o trimmed \o <<"\n">>

RECURSIVE ClaimedLines(_)
ClaimedLines(paras) ==
    IF paras = <<>> THEN <<>>
    ELSE ClaimedLine(Head(paras)) \o ClaimedLines(Tail(paras))

\* C23 (as claimed): every paragraph of a text body whose run text is not
\* blank gives exactly one line, in paragraph order, holding the trimmed text
\* of its own runs: "### text" when the text has fewer than 100 characters,
\* ends in none of '.', '!', '?' and is a single line, "- text" otherwise;
\* a blank paragraph gives nothing.
C23_ParagraphLines ==
    pc = "done" =>
        out = Ok(IF ClaimedLines(inp) = <<>> THEN <<>>
                 ELSE ClaimedLines(inp) \o <<"\n", "\n">>)

\* the image-blip elements of the slides that carry an embed reference,
\* written as an open tag or as a self-closing element
BlipsIn(slides) ==
    UNION {{<<k, i>> : i \in {j \in 1..Len(slides[k]) :
                                   /\ slides[k][j].name = "a:blip"
                                   /\ slides[k][j].type \in {"Start", "Empty"}
                                   /\ IsSome(slides[k][j].embed)}} :
           k \in 1..Len(slides)}

ImageNotFound(id) ==
    <<"!","[","I","m","a","g","e"," ","n","o","t"," ","f","o","u","n","d","]","(">> \o id \o <<")">>

\* C24 (as claimed): a presentation whose slides parse converts, and its
\* output holds exactly one image line for every image-blip element with an
\* embed reference, open or self-closing; when the media table holds no
\* image that matches, the line is the placeholder that names the embed id.
C24_OneLinePerBlip ==
    (pc # "ready" /\ inp.format = "pptx" /\ inp.archive.valid) =>
        LET slides == SlidesIn(inp.archive.entries)
            blips == BlipsIn(slides)
            media == MediaEntries(inp.archive.entries, MediaDir("pptx"))
        IN  (\A k \in 1..Len(slides) : \A i \in 1..Len(slides[k]) : slides[k][i].type # "Err") =>
                /\ (media = <<>> => IsOk(out.first.res))
                /\ IsOk(out.first.res) =>
                      /\ Occurrences(out.first.res.val, <<"!", "[">>) = Cardinality(blips)
                      /\ (media = <<>>) =>
                            \A b \in blips :
                               Contains(out.first.res.val,
                                        ImageNotFound(slides[b[1]][b[2]].embed.val))

(***************************************************************************)
(* Slides whose XML ends early: the reader yields Eof after the last event *)
(***************************************************************************)
\* whole slides: two of the example slides one after the other
WholeSlides ==
    {a \o b : a, b \in {SlideWithText, SlideWithTable, SlideWithBlip, SlideWithEmptyBlip}}

\* a slide cut after any number of its events
CutSlides == UNION {{SubSeq(s, 1, n) : n \in 0..Len(s)} : s \in WholeSlides}

InitCut ==
    /\ pc = "ready"
    /\ inp \in CutSlides
    /\ out = None
    /\ SETTINGS = DefaultSettings
    /\ fs = EmptyFs
    /\ now = 1

\* one call of parse_slide_content on the cut slide, without media
ParseCut ==
    /\ pc = "ready"
    /\ \E r \in {parse_slide_content(inp, 1, <<>>, <<>>, SETTINGS, fs, CalmEnv(now))} :
          /\ out' = r.res
          /\ fs' = r.fs
    /\ pc' = "done"
    /\ UNCHANGED <<inp, SETTINGS, now>>

NextCut == ParseCut

SpecCut == InitCut /\ [][NextCut]_vars

CountEvents(events, type, name) ==
    Cardinality({i \in 1..Len(events) : events[i].type = type /\ events[i].name = name})

\* a text body, text run, table or table cell is open at the end of input
OpenAtEof(events) ==
    \E n \in {"p:txBody", "a:t", "a:tbl", "a:tc"} :
        CountEvents(events, "Start", n) > CountEvents(events, "End", n)

\* C25 (as claimed): a slide whose XML ends while a text body, text run,
\* table or table cell is open is a slide parse error, never Ok with the
\* content read so far.
C25_EofMidElement ==
    (pc = "done" /\ OpenAtEof(inp)) => ~IsOk(out)

(***************************************************************************)
(* The SETTINGS lock: a conversion thread resolving images while another   *)
(* thread writes the configuration (config.rs, generator/image2md.rs)      *)
(*                                                                         *)
(* SETTINGS is a std::sync::RwLock.  `let cfg = &*SETTINGS.read().unwrap()`*)
(* keeps its read guard to the end of the function, so image2md::run holds *)
(* one while run_with_mode takes a second and call_doubao_api a third.     *)
(* Whether a read is granted while a writer waits is left to the platform: *)
(* inp.policy is "readers" when it is and "writers" when it is not.        *)
(* pc = [conv, ui]; out = [readers, writing, mode, resolved].              *)
(***************************************************************************)
MaxImages == 2

ImgDir == <<"i","m","g">>

LockSettings ==
    {[DefaultSettings EXCEPT !.image_path = p, !.is_ai_enpower = a] :
        p \in {<<>>, ImgDir}, a \in BOOLEAN}

\* the arguments of update_settings_with_cli_args
LockUpdates ==
    [image_path : {None, Some(ImgDir)}, ai_enable : {None, Some(TRUE), Some(FALSE)}]

InitLock ==
    /\ pc = [conv |-> "run", ui |-> "idle"]
    /\ inp \in [policy : {"readers", "writers"}, images : 1..MaxImages,
                settings : LockSettings, update : LockUpdates]
    /\ out = [readers |-> 0, writing |-> FALSE, mode |-> "none", resolved |-> <<>>]
    /\ SETTINGS = inp.settings
    /\ fs = EmptyFs
    /\ now = 1

\* RwLock::read returns: no writer holds the lock, and none waits for it
\* where waiting writers go first
CanRead == ~out.writing /\ (inp.policy = "readers" \/ pc.ui # "waiting")

\* RwLock::write returns: nobody holds the lock
CanWrite == out.readers = 0 /\ ~out.writing

\* image2md::run: takes a read guard and chooses the mode
RunRead ==
    /\ pc.conv = "run"
    /\ CanRead
    /\ out' = [out EXCEPT !.readers = @ + 1,
                          !.mode = IF SETTINGS.image_path = <<>> THEN "Base64"
                                   ELSE "SaveToFile"]
    /\ pc' = [pc EXCEPT !.conv = "mode"]
    /\ UNCHANGED <<inp, SETTINGS, fs, now>>

\* run_with_mode: takes a second read guard and chooses the naming
ModeRead ==
    /\ pc.conv = "mode"
    /\ CanRead
    /\ out' = [out EXCEPT !.readers = @ + 1]
    /\ pc' = [pc EXCEPT !.conv = IF SETTINGS.is_ai_enpower THEN "api" ELSE "emit"]
    /\ UNCHANGED <<inp, SETTINGS, fs, now>>

\* call_doubao_api: takes a third read guard for the key and drops it on return
ApiRead ==
    /\ pc.conv = "api"
    /\ CanRead
    /\ pc' = [pc EXCEPT !.conv = "emit"]
    /\ UNCHANGED <<inp, out, SETTINGS, fs, now>>

\* run_with_mode and run return the image line: both guards are dropped
Resolve ==
    /\ pc.conv = "emit"
    /\ out' = [out EXCEPT !.readers = @ - 2,
                          !.mode = "none",
                          !.resolved = Append(@, [mode |-> out.mode,
                                                  ai |-> SETTINGS.is_ai_enpower])]
    /\ pc' = [pc EXCEPT !.conv = IF Len(out.resolved) + 1 = inp.images
                                 THEN "done" ELSE "run"]
    /\ UNCHANGED <<inp, SETTINGS, fs, now>>

\* update_settings_with_cli_args is called: SETTINGS.write() starts to wait
WriteRequest ==
    /\ pc.ui = "idle"
    /\ pc' = [pc EXCEPT !.ui = "waiting"]
    /\ UNCHANGED <<inp, out, SETTINGS, fs, now>>

\* SETTINGS.write() returns the write guard
WriteLock ==
    /\ pc.ui = "waiting"
    /\ CanWrite
    /\ out' = [out EXCEPT !.writing = TRUE]
    /\ pc' = [pc EXCEPT !.ui = "locked"]
    /\ UNCHANGED <<inp, SETTINGS, fs, now>>

\* settings.image_path = path
WritePath ==
    /\ pc.ui = "locked"
    /\ SETTINGS' = IF IsSome(inp.update.image_path)
                   THEN [SETTINGS EXCEPT !.image_path = inp.update.image_path.val]
                   ELSE SETTINGS
    /\ pc' = [pc EXCEPT !.ui = "path"]
    /\ UNCHANGED <<inp, out, fs, now>>

\* settings.is_ai_enpower = enable, and the guard is dropped on return
WriteAi ==
    /\ pc.ui = "path"
    /\ SETTINGS' = IF IsSome(inp.update.ai_enable)
                   THEN [SETTINGS EXCEPT !.is_ai_enpower = inp.update.ai_enable.val]
                   ELSE SETTINGS
    /\ out' = [out EXCEPT !.writing = FALSE]
    /\ pc' = [pc EXCEPT !.ui = "done"]
    /\ UNCHANGED <<inp, fs, now>>

NextLock ==
    \/ RunRead \/ ModeRead \/ ApiRead \/ Resolve
    \/ WriteRequest \/ WriteLock \/ WritePath \/ WriteAi

SpecLock == InitLock /\ [][NextLock]_vars

\* the configuration after the whole write
Updated(settings, update) ==
    [settings EXCEPT
        !.image_path = IF IsSome(update.image_path) THEN update.image_path.val ELSE @,
        !.is_ai_enpower = IF IsSome(update.ai_enable) THEN update.ai_enable.val ELSE @]

\* C26 (as claimed): a configuration write and a running conversion never
\* block each other forever: the conversion, holding a read guard, is never
\* left waiting for a nested read while the writer waits for that guard; and
\* while the conversion holds a guard the configuration is the one before or
\* the one after the write, never a half-applied one.
C26_WriteSynchronized ==
    /\ ~(/\ pc.conv \in {"mode", "api"} /\ ~CanRead
         /\ pc.ui = "waiting" /\ ~CanWrite)
    /\ out.readers > 0 =>
          SETTINGS \in {inp.settings, Updated(inp.settings, inp.update)}

\* C27 (as claimed): every image of one conversion is resolved in the same
\* placement mode and with the same naming strategy, also when the
\* configuration is written between two of its images.
C27_OnePolicyPerConversion ==
    pc.conv = "done" =>
        \A i, j \in 1..Len(out.resolved) : out.resolved[i] = out.resolved[j]

(***************************************************************************)
(* A sequence of saved-file resolutions into one directory                 *)
(*                                                                         *)
(* out is the sequence of [bytes, md] of the calls that returned Ok, now   *)
(* the clock in seconds.                                                   *)
(***************************************************************************)
MaxSaves == 3

SavedBytes == {MagicPng \o <<0>>, MagicPng \o <<255>>, MagicJpeg \o <<0>>, <<0>>}

InitSaves ==
    /\ pc = "saving"
    /\ inp \in {ImgDir, <<"/","o","/","i","m","g">>}
    /\ out = <<>>
    /\ SETTINGS = [DefaultSettings EXCEPT !.image_path = inp]
    /\ fs = EmptyFs
    /\ now = 9

\* image2md::run on some image, in saved-file mode with timestamp naming
SaveImage ==
    /\ pc = "saving"
    /\ Len(out) < MaxSaves
    /\ \E bytes \in SavedBytes :
          \E r \in {image2md_run(bytes, SETTINGS, fs, CalmEnv(now))} :
             /\ IsOk(r.res)
             /\ out' = Append(out, [bytes |-> bytes, md |-> r.res.val])
             /\ fs' = r.fs
    /\ UNCHANGED <<pc, inp, SETTINGS, now>>

\* a second passes between two resolutions
SecondPasses ==
    /\ pc = "saving"
    /\ now < 9 + MaxTicks
    /\ now' = now + 1
    /\ UNCHANGED <<pc, inp, out, SETTINGS, fs>>

NextSaves == SaveImage \/ SecondPasses

SpecSaves == InitSaves /\ [][NextSaves]_vars

\* the file a reference ![name](file) names, below the image directory
ReferredFile(md) ==
    LET open == CHOOSE i \in 1..Len(md) : SubSeq(md, i, i + 1) = <<"]", "(">>
    IN  PathJoin(SETTINGS.image_path, SubSeq(md, open + 2, Len(md) - 1))

\* C28 (as claimed): after any sequence of saved-file resolutions with
\* timestamp naming, every reference returned so far names a file that holds
\* the bytes of its call, and resolutions of different images never share a
\* file, also within one second.
C28_SavedFilesIndependent ==
    /\ \A i \in 1..Len(out) :
          /\ ReferredFile(out[i].md) \in DOMAIN fs.files
          /\ fs.files[ReferredFile(out[i].md)] = out[i].bytes
    /\ \A i, j \in 1..Len(out) :
          out[i].bytes # out[j].bytes => ReferredFile(out[i].md) # ReferredFile(out[j].md)

\* C29: without a heading style and with a font size, the bold heuristic
\* never decides: the result is the size-derived heading or not-a-heading,
\* and it is the one determine_heading_status gives for the other value of
\* has_bold.
C29_SizeSilencesBold ==
    (pc = "done" /\ ~out.style_signal[1] /\ IsSome(out.font_size)) =>
        LET final == <<out.final_is_heading, out.final_level>>
            level == SizeLevelInPoints(out.font_size.val)
        IN  /\ final \in {<<TRUE, level>>, <<FALSE, 1>>}
            /\ final[1] => level # 0
            /\ final = determine_heading_status(FALSE, 1, ~out.has_bold, out.font_size,
                                                out.text_content)

\* a short bold line of letters below 12pt: the bold heuristic alone would
\* make it a heading
C29_Witness ==
    /\ pc = "done"
    /\ ~out.style_signal[1]
    /\ IsSome(out.font_size)
    /\ SizeLevelInPoints(out.font_size.val) = 0
    /\ out.has_bold
    /\ BoldHeuristic(TRUE, out.text_content)[1]
    /\ ~out.final_is_heading

(***************************************************************************)
(* The GUI: bin/markitup-gui.rs                                            *)
(*                                                                         *)
(* out is the UIFramework with the worker side: file_list, the selected    *)
(* file, the displayed Markdown, the editor copy, convert_state, the       *)
(* workers still converting (the file and the number of the spawn) and the *)
(* messages in the channel.  One frame of UIFramework::update drains the   *)
(* channel and then handles at most one click.                             *)
(***************************************************************************)
MaxWorkers == 3

GuiFiles == {"a.csv", "b.csv", "x.bin"}

\* markitup::convert_from_path on the files of the session
ConvertFromPath(path) ==
    IF path = "a.csv" THEN Ok(<<"|"," ","a"," ","|","\n">>)
    ELSE IF path = "b.csv" THEN Ok(<<"|"," ","b"," ","|","\n">>)
    ELSE Err("Unsupported file type")

\* replace_base64_in_markdown: the Markdown of these files holds no data URI
replace_base64_in_markdown(markdown) ==
    Replace(markdown, <<"(","d","a","t","a",":","i","m","a","g","e","/">>,
            <<"(","b","a","s","e","6","4","_","i","m","a","g","e","_","p","l","a","c","e","h","o","l","d","e","r">>)

InitGui ==
    /\ pc = "ui"
    /\ inp = GuiFiles
    /\ out = [file_list |-> <<>>, select_file_path |-> None,
              current_markdown_content |-> <<>>, editor_display_content |-> <<>>,
              convert_state |-> "Idle", workers |-> {}, spawned |-> 0, channel |-> <<>>]
    /\ SETTINGS = DefaultSettings
    /\ fs = EmptyFs
    /\ now = 1

\* the loop over worker_receiver.try_recv() at the start of update
RECURSIVE Drain(_, _)
Drain(ui, msgs) ==
    IF msgs = <<>> THEN [ui EXCEPT !.channel = <<>>]
    ELSE IF Head(msgs).kind = "ConversionResult"
    THEN Drain([ui EXCEPT !.current_markdown_content = Head(msgs).full_markdown,
                          !.editor_display_content = Head(msgs).display_markdown,
                          !.convert_state = "Idle"],
               Tail(msgs))
    ELSE Drain([ui EXCEPT !.convert_state = "Error"], Tail(msgs))

\* load_and_set_markdown_content: selects the file and spawns its worker
load_and_set_markdown_content(ui, path) ==
    [ui EXCEPT !.select_file_path = Some(path),
               !.convert_state = "Converting",
               !.workers = @ \cup {[path |-> path, id |-> ui.spawned + 1]},
               !.spawned = @ + 1]

\* the removal of a file from the list in update
RemoveFromList(ui, path) ==
    LET kept == SelectSeq(ui.file_list, LAMBDA f : f # path)
        cleared == [ui EXCEPT !.file_list = kept,
                              !.select_file_path = None,
                              !.current_markdown_content = <<>>,
                              !.editor_display_content = <<>>,
                              !.convert_state = "Idle"]
    IN  IF ui.select_file_path = Some(path) THEN cleared
        ELSE IF kept = <<>> /\ IsSome(ui.select_file_path) THEN cleared
        ELSE [ui EXCEPT !.file_list = kept]

\* a frame without a click
UpdateIdle ==
    /\ out.channel # <<>>
    /\ out' = Drain(out, out.channel)
    /\ UNCHANGED <<pc, inp, SETTINGS, fs, now>>

\* a frame in which "Open" adds a file to the list
UpdateOpen ==
    /\ \E path \in inp :
          /\ \A i \in 1..Len(out.file_list) : out.file_list[i] # path
          /\ \E ui \in {Drain(out, out.channel)} :
                out' = [ui EXCEPT !.file_list = Append(@, path)]
    /\ UNCHANGED <<pc, inp, SETTINGS, fs, now>>

\* a frame in which a file of the list that is not selected is clicked
UpdateSelect ==
    /\ out.spawned < MaxWorkers
    /\ \E i \in 1..Len(out.file_list) :
          /\ out.select_file_path # Some(out.file_list[i])
          /\ \E ui \in {Drain(out, out.channel)} :
                out' = load_and_set_markdown_content(ui, out.file_list[i])
    /\ UNCHANGED <<pc, inp, SETTINGS, fs, now>>

\* a frame in which a file is removed from the list
UpdateRemove ==
    /\ \E i \in 1..Len(out.file_list) :
          \E ui \in {Drain(out, out.channel)} :
             out' = RemoveFromList(ui, out.file_list[i])
    /\ UNCHANGED <<pc, inp, SETTINGS, fs, now>>

\* a worker thread finishes its conversion and sends its message
WorkerSend ==
    /\ \E w \in out.workers :
          \E r \in {ConvertFromPath(w.path)} :
             out' = [out EXCEPT
                        !.workers = @ \ {w},
                        !.channel = Append(@,
                            IF IsOk(r)
                            THEN [kind |-> "ConversionResult", full_markdown |-> r.val,
                                  display_markdown |-> replace_base64_in_markdown(r.val)]
                            ELSE [kind |-> "Error", full_markdown |-> <<>>,
                                  display_markdown |-> <<>>])]
    /\ UNCHANGED <<pc, inp, SETTINGS, fs, now>>

NextGui == UpdateIdle \/ UpdateOpen \/ UpdateSelect \/ UpdateRemove \/ WorkerSend

SpecGui == InitGui /\ [][NextGui]_vars

\* every started worker has finished and its message has been drained
Settled == out.workers = {} /\ out.channel = <<>>

\* C30 (as claimed): once every started worker has finished and its message
\* is drained, the displayed Markdown is the conversion of the selected
\* file, whatever order the workers finished in, and it is empty when no
\* file is selected.
C30_ShowsSelectedFile ==
    (pc = "ui" /\ Settled) =>
        /\ (IsSome(out.select_file_path) /\ IsOk(ConvertFromPath(out.select_file_path.val))) =>
              out.current_markdown_content = ConvertFromPath(out.select_file_path.val).val
        /\ ~IsSome(out.select_file_path) => out.current_markdown_content = <<>>

====
